---- MODULE Spec2Model ----
(***************************************************************************)
(* Model of the stream notifier: the per-platform client singletons        *)
(* (functions/auth/twitch/auth.ts, functions/auth/kick/auth.ts), the       *)
(* webhook handlers and dashboard routes of functions/server.ts, the       *)
(* notification pipeline of functions/message.ts, the token-keeping        *)
(* clients (the Kick OAuth variant, functions/auth.ts), the subscription   *)
(* helpers and the startup script.                                         *)
(*                                                                         *)
(* Node runs every handler on one thread: a handler runs without           *)
(* interruption from one await to the next.  Each action below is one such *)
(* run-to-await segment of the source.                                     *)
(*                                                                         *)
(* Strings and byte buffers are sequences of character codes.  A header    *)
(* that is absent and a header that is the empty string are both falsy in  *)
(* the source's `!x` tests; both are the empty sequence here.              *)
(***************************************************************************)
EXTENDS Integers, Sequences, FiniteSets, TLC

VARIABLES
    env,         \* process.env, fixed at start
    twitch,      \* TwitchApiClient's statics and the clients it constructed
    kick,        \* KickApiClient's statics and the clients it constructed
    reqs,        \* the webhook POSTs received so far, each with its handler's position
    runs,        \* the sendMessage invocations started so far
    callers,     \* other callers of getInstance (startup, the subscription helpers)
    verifyCall,  \* arguments and outcome of the latest verifyTwitchSignature call
    hist,        \* per observed sendMessage invocation: what its attempts met and did
    now,         \* Date.now(), in ms
    expiry,      \* argument and outcome of the latest isTokenExpired call
    oauth,       \* the Kick client of the OAuth variant, its token file, its calls
    filed,       \* the Twitch client of the file variant, its token files, its calls
    api,         \* an app-token client (Twitch or Kick), its token and its API calls
    pkceStore,   \* server.ts's pkceStore and the timers set for its entries
    callbacks,   \* the GET /callback/kick requests received so far
    startup      \* the startup script: its position, and the deletions it has made

\* the state of the token-keeping clients, which the notifier's steps leave alone
tokenVars == <<now, expiry, oauth, filed>>

\* the state of the notifier, which the token-keeping clients' steps leave alone
notifierVars == <<env, twitch, kick, reqs, runs, callers, verifyCall, hist>>

\* the state of the app-token client under API calls, of the dashboard's OAuth
\* routes and of the startup script
adminVars == <<api, pkceStore, callbacks, startup>>

vars == <<env, twitch, kick, reqs, runs, callers, verifyCall, hist, now, expiry, oauth, filed,
          api, pkceStore, callbacks, startup>>

(***************************************************************************)
(* Bounds of the model.                                                    *)
(***************************************************************************)
\* webhook POSTs received in one behaviour
MaxReq == 1

\* getInstance calls made by the other callers in one behaviour
MaxCallers == 2

(***************************************************************************)
(* Sequences helpers.                                                      *)
(***************************************************************************)
Range(s) == {s[i] : i \in 1..Len(s)}

RECURSIVE Flatten(_)
Flatten(ss) == IF ss = <<>> THEN <<>> ELSE Head(ss) \o Flatten(Tail(ss))

(***************************************************************************)
(* Buffers and node:crypto, as far as the source uses them.  The digest is *)
(* a small keyed hash standing for HMAC-SHA256 (one byte wide instead of   *)
(* 32); what the source adds to it is modelled as written: the order of    *)
(* the update() calls, the hex encoding, the "sha256=" prefix, and         *)
(* timingSafeEqual, which compares buffers of equal byte length and throws *)
(* on any others.                                                          *)
(***************************************************************************)
\* Buffer.from(string): the UTF-8 bytes of the string
Utf8(c) == IF c < 128 THEN <<c>> ELSE <<192 + (c \div 64), 128 + (c % 64)>>

BufferFrom(str) == Flatten([i \in 1..Len(str) |-> Utf8(str[i])])

RECURSIVE HashFold(_, _)
HashFold(h, bytes) ==
    IF bytes = <<>> THEN h
    ELSE HashFold((h * 31 + Head(bytes) + 1) % 256, Tail(bytes))

\* the digest of key and message: inner hash of key||message, outer hash of key||inner
HmacSha256(key, bytes) == HashFold(0, key \o <<HashFold(0, key \o bytes)>>)

HexChar(d) == IF d < 10 THEN 48 + d ELSE 87 + d

\* digest('hex') of a one-byte digest
HexDigest(n) == <<HexChar(n \div 16), HexChar(n % 16)>>

\* crypto.createHmac('sha256', key), hmac.update(data), hmac.digest('hex')
CreateHmac(key) == [key |-> BufferFrom(key), buf |-> <<>>]

HmacUpdate(hmac, data) == [hmac EXCEPT !.buf = @ \o data]

HmacDigestHex(hmac) == HexDigest(HmacSha256(hmac.key, hmac.buf))

\* the characters of "sha256="
Sha256Prefix == <<115, 104, 97, 50, 53, 54, 61>>

\* crypto.timingSafeEqual(a, b): "throw" is its RangeError on unequal byte lengths
TimingSafeEqual(a, b) ==
    IF Len(a) # Len(b) THEN "throw"
    ELSE IF \A i \in 1..Len(a) : a[i] = b[i] THEN "true" ELSE "false"

\* a verifier that feeds the timestamp to the hmac before the message id
ComputedSignature_TimestampFirst(secret, messageId, timestamp, body) ==
    Sha256Prefix \o HmacDigestHex(
        HmacUpdate(HmacUpdate(HmacUpdate(CreateHmac(secret), BufferFrom(timestamp)),
                              BufferFrom(messageId)), body))

\* verifyTwitchSignature, the computed side: hmac over id, timestamp, body in
\* that order, hex, prefixed
ComputedSignature(secret, messageId, timestamp, body) ==
    Sha256Prefix \o HmacDigestHex(
        HmacUpdate(HmacUpdate(HmacUpdate(CreateHmac(secret), BufferFrom(messageId)),
                              BufferFrom(timestamp)), body))

\* TwitchApiClient.verifyTwitchSignature: "true", "false", or "throw" when the
\* promise it returns rejects
VerifyTwitchSignature(secret, messageId, timestamp, body, providedSignature) ==
    TimingSafeEqual(BufferFrom(ComputedSignature(secret, messageId, timestamp, body)),
                    BufferFrom(providedSignature))

(***************************************************************************)
(* Kick signs with RSA; the model's RSA has the modulus 33 = 3 * 11, the   *)
(* public exponent 3 and the private exponent 7.  A public key is the text *)
(* <<modulus, exponent>>, a base64 signature is two digits of 6 bits.      *)
(***************************************************************************)
RECURSIVE ModPow(_, _, _)
ModPow(b, e, n) == IF e = 0 THEN 1 % n ELSE (b * ModPow(b, e - 1, n)) % n

KickPublicKeyText == <<33, 3>>

\* what Kick's signer does with its private key
KickSign(data) == ModPow(HashFold(0, data) % 33, 7, 33)

Base64Encode(n) == <<n \div 64, n % 64>>

Base64Decode(str) == IF Len(str) = 2 THEN str[1] * 64 + str[2] ELSE 0

\* String.prototype.trim on the texts the model uses: 10 and 32 are whitespace
RECURSIVE TrimEnd(_)
TrimEnd(str) ==
    IF str # <<>> /\ str[Len(str)] \in {10, 32} THEN TrimEnd(SubSeq(str, 1, Len(str) - 1))
    ELSE str

RECURSIVE TrimStart(_)
TrimStart(str) ==
    IF str # <<>> /\ Head(str) \in {10, 32} THEN TrimStart(Tail(str)) ELSE str

Trim(str) == TrimStart(TrimEnd(str))

\* whether node can read the text as a public key
IsPublicKey(text) == Len(text) = 2 /\ text[1] > 1 /\ text[2] > 0

\* KickApiClient.verifyKickSignature: "true", "false", or "throw" when
\* crypto cannot read the stored text as a key
VerifyKickSignature(publicKey, messageId, timestamp, body, providedSignature) ==
    IF publicKey = <<>> THEN "false"
    ELSE IF ~IsPublicKey(publicKey) THEN "throw"
    ELSE LET dataToSign == BufferFrom(messageId \o <<46>> \o timestamp \o <<46>> \o body)
             digest == HashFold(0, dataToSign) % publicKey[1]
         IN  IF ModPow(Base64Decode(providedSignature), publicKey[2], publicKey[1]) = digest
             THEN "true" ELSE "false"

(***************************************************************************)
(* Request bodies.  JSON.parse is a table over the bodies the model sends: *)
(* for each raw body, whether it parses and the fields the handlers read.  *)
(***************************************************************************)
Undefined == "undefined"

NotJson == [ok |-> FALSE, challenge |-> Undefined, subscription |-> FALSE,
            event |-> FALSE, event_broadcaster_user_id |-> Undefined,
            broadcaster_user_id |-> Undefined, user_id |-> Undefined,
            channel_id |-> Undefined, is_live |-> Undefined, broadcaster |-> FALSE]

EmptyObject == [NotJson EXCEPT !.ok = TRUE]

\* "{c}": {"challenge":"abc123","subscription":{...}}
BodyChallenge == <<123, 99, 125>>
\* "{r}": {"subscription":{"id":"sub1",...}}
BodyRevocation == <<123, 114, 125>>
\* "{n}": {"subscription":{...},"event":{"broadcaster_user_id":"123",...}}
BodyNotification == <<123, 110, 125>>
\* "{}"
BodyEmptyObject == <<123, 125>>
\* "{": not JSON
BodyNotJson == <<123>>
\* "{l}": {"broadcaster_user_id":7,"is_live":true}
BodyKickLive == <<123, 108, 125>>
\* "{o}": {"broadcaster_user_id":7,"is_live":false}
BodyKickOffline == <<123, 111, 125>>
\* "{e}": {"broadcaster":{"user_id":7,...},"is_live":true,"title":"t"}, the
\* KickLivestreamStatusUpdateEvent of @types/kick.d.ts
BodyKickEvent == <<123, 101, 125>>

TwitchBodies == {BodyChallenge, BodyRevocation, BodyNotification, BodyEmptyObject, BodyNotJson}

KickBodies == {BodyKickLive, BodyKickOffline, BodyKickEvent, BodyEmptyObject, BodyNotJson}

JsonParse(raw) ==
    CASE raw = BodyChallenge -> [EmptyObject EXCEPT !.challenge = "abc123", !.subscription = TRUE]
      [] raw = BodyRevocation -> [EmptyObject EXCEPT !.subscription = TRUE]
      [] raw = BodyNotification ->
             [EmptyObject EXCEPT !.subscription = TRUE, !.event = TRUE,
                                 !.event_broadcaster_user_id = "123"]
      [] raw = BodyKickLive ->
             [EmptyObject EXCEPT !.broadcaster_user_id = "7", !.is_live = "true"]
      [] raw = BodyKickOffline ->
             [EmptyObject EXCEPT !.broadcaster_user_id = "7", !.is_live = "false"]
      [] raw = BodyKickEvent ->
             [EmptyObject EXCEPT !.is_live = "true", !.broadcaster = TRUE]
      [] raw = BodyEmptyObject -> EmptyObject
      [] OTHER -> NotJson

(***************************************************************************)
(* The environment and the client singletons.                              *)
(*                                                                         *)
(* A client class keeps two statics, instance and instancePromise.  Each   *)
(* execution of the async initializer in getInstance is one entry of       *)
(* `inits`; the promise of that execution and the client object it         *)
(* constructs are both named by the entry's index, and 0 is null.          *)
(***************************************************************************)
\* EVENTSUB_SECRET when it is configured: "k"
ConfiguredSecret == <<107>>

\* crypto.randomBytes(32).toString('hex'), one hex digit long here
RandomSecrets == {<<97>>}

TokenIssued == <<[accessToken |-> "app"]>>

\* a token field holds null (the empty sequence) or one token
NoToken == <<>>

\* TwitchApiClient.secret, fixed when the client is constructed
SecretChoices == IF env.eventsubSecret # <<>> THEN {env.eventsubSecret} ELSE RandomSecrets

\* a getInstance that looks at `instance` only
PromiseCached_Never(statics) == FALSE

\* `if (X.instancePromise) return X.instancePromise`
PromiseCached(statics) == statics.instancePromise # 0

\* TwitchApiClient.getInstance up to its first await: the statics afterwards
\* and the promise handed to the caller
TwitchGetInstance(tw) ==
    LET next == Len(tw.inits) + 1 IN
    IF tw.instance # 0 THEN {[statics |-> tw, promise |-> tw.instance]}
    ELSE IF PromiseCached(tw) THEN {[statics |-> tw, promise |-> tw.instancePromise]}
    ELSE IF ~env.twitchCredentials
    THEN {[statics |-> [tw EXCEPT !.instancePromise = next,
                                  !.inits = Append(@, [state |-> "rejected", secret |-> <<>>,
                                                       appToken |-> NoToken])],
           promise |-> next]}
    ELSE {[statics |-> [tw EXCEPT !.instancePromise = next,
                                  !.inits = Append(@, [state |-> "fetchToken", secret |-> sec,
                                                       appToken |-> NoToken])],
           promise |-> next] : sec \in SecretChoices}

\* fetchAppAccessToken of initializeTokens completes: the token is stored and
\* the instance published, or the initializer's promise rejects
TwitchInitFetchDone(i) ==
    /\ i \in 1..Len(twitch.inits)
    /\ twitch.inits[i].state = "fetchToken"
    /\ \E ok \in BOOLEAN :
         twitch' = IF ok
                   THEN [twitch EXCEPT !.inits[i].appToken = TokenIssued,
                                       !.inits[i].state = "resolved",
                                       !.instance = i]
                   ELSE [twitch EXCEPT !.inits[i].state = "rejected"]
    /\ UNCHANGED <<env, kick, reqs, runs, callers, verifyCall, hist, tokenVars, adminVars>>

\* KickApiClient.getInstance up to its first await
KickGetInstance(kk) ==
    LET next == Len(kk.inits) + 1 IN
    IF kk.instance # 0 THEN {[statics |-> kk, promise |-> kk.instance]}
    ELSE IF PromiseCached(kk) THEN {[statics |-> kk, promise |-> kk.instancePromise]}
    ELSE IF ~env.kickCredentials
    THEN {[statics |-> [kk EXCEPT !.instancePromise = next, !.instance = next,
                                  !.inits = Append(@, [state |-> "resolved", clientId |-> FALSE,
                                                       publicKey |-> <<>>, appToken |-> NoToken])],
           promise |-> next]}
    ELSE {[statics |-> [kk EXCEPT !.instancePromise = next,
                                  !.inits = Append(@, [state |-> "fetchPublicKey", clientId |-> TRUE,
                                                       publicKey |-> <<>>, appToken |-> NoToken])],
           promise |-> next]}

\* what the public-key endpoint may answer with a 2xx: the key and a newline,
\* another key, or a text that is no key
PublicKeyResponses == {KickPublicKeyText \o <<10>>, <<60, 62>>, <<123, 125>> \o <<125>>}

\* a getInstance without the try/catch around initialize: a thrown
\* public-key fetch rejects the initializer's promise
KickPublicKeyDone_Rethrows(i) ==
    /\ i \in 1..Len(kick.inits)
    /\ kick.inits[i].state = "fetchPublicKey"
    /\ \/ \E text \in PublicKeyResponses :
            kick' = [kick EXCEPT !.inits[i].publicKey = Trim(text),
                                 !.inits[i].state = "fetchToken"]
       \/ kick' = [kick EXCEPT !.inits[i].state = "fetchToken"]
       \/ kick' = [kick EXCEPT !.inits[i].state = "rejected"]
    /\ UNCHANGED <<env, twitch, reqs, runs, callers, verifyCall, hist, tokenVars, adminVars>>

\* fetchPublicKey completes.  2xx: the trimmed text is stored; non-2xx: nothing
\* is stored; either way initialize goes on to getValidAccessToken, which
\* finds no token and issues the token request.  A thrown fetch ends
\* initialize, getInstance catches it and publishes the client.
KickPublicKeyDone(i) ==
    /\ i \in 1..Len(kick.inits)
    /\ kick.inits[i].state = "fetchPublicKey"
    /\ \/ \E text \in PublicKeyResponses :
            kick' = [kick EXCEPT !.inits[i].publicKey = Trim(text),
                                 !.inits[i].state = "fetchToken"]
       \/ kick' = [kick EXCEPT !.inits[i].state = "fetchToken"]
       \/ kick' = [kick EXCEPT !.inits[i].state = "resolved", !.instance = i]
    /\ UNCHANGED <<env, twitch, reqs, runs, callers, verifyCall, hist, tokenVars, adminVars>>

\* the token request of initialize completes: stored on 2xx, logged otherwise;
\* getInstance then publishes the client
KickInitFetchDone(i) ==
    /\ i \in 1..Len(kick.inits)
    /\ kick.inits[i].state = "fetchToken"
    /\ \E ok \in BOOLEAN :
         kick' = [kick EXCEPT !.inits[i].appToken = IF ok THEN TokenIssued ELSE NoToken,
                              !.inits[i].state = "resolved",
                              !.instance = i]
    /\ UNCHANGED <<env, twitch, reqs, runs, callers, verifyCall, hist, tokenVars, adminVars>>

\* no isTokenExpired call, no client of the OAuth or file variant constructed
NoExpiryCall == [token |-> <<>>, result |-> "none"]

NoOAuthClient == [userToken |-> <<>>, file |-> <<>>, issued |-> 0, used |-> {}, calls |-> <<>>]

NoFileClient == [userTokens |-> <<>>, appTokens |-> <<>>, userFile |-> <<>>,
                 appFile |-> <<>>, issued |-> 0, requests |-> 0, calls |-> <<>>]

\* no app-token client under API calls, nothing in pkceStore and no timer set,
\* no callback request received, the startup script not started
NoApiClient == [variant |-> "none", clientId |-> FALSE, appToken |-> <<>>, issued |-> 0,
                requests |-> 0, calls |-> <<>>]

NoPkce == [entries |-> {}, timers |-> {}, expired |-> {}, logins |-> <<>>]

NoStartup == [pc |-> "none", channel |-> 0, outcomes |-> <<>>]

AdminIdle ==
    /\ api = NoApiClient
    /\ pkceStore = NoPkce
    /\ callbacks = <<>>
    /\ startup = NoStartup

NoVerifyCall == [secret |-> <<>>, messageId |-> <<>>, timestamp |-> <<>>, body |-> <<>>,
                 providedSignature |-> <<>>, result |-> "none"]

Init ==
    /\ env \in [twitchCredentials : BOOLEAN, kickCredentials : BOOLEAN,
                eventsubSecret : {<<>>, ConfiguredSecret}, discordWebhookUrl : {"unread"}]
    /\ twitch = [instance |-> 0, instancePromise |-> 0, inits |-> <<>>]
    /\ kick = [instance |-> 0, instancePromise |-> 0, inits |-> <<>>]
    /\ reqs = <<>>
    /\ runs = <<>>
    /\ callers = <<>>
    /\ verifyCall = NoVerifyCall
    /\ hist = <<>>
    /\ now = 0
    /\ expiry = NoExpiryCall
    /\ oauth = NoOAuthClient
    /\ filed = NoFileClient
    /\ AdminIdle

(***************************************************************************)
(* POST /events/twitch.                                                    *)
(*                                                                         *)
(* The handler has three segments: up to `await getInstance()`, from there *)
(* to `await client.verifyTwitchSignature(...)`, and the rest.  What the   *)
(* sender put into the request is drawn where the handler first reads it.  *)
(***************************************************************************)
MessageIds == {<<>>, <<109>>}

Timestamps == {<<>>, <<116>>}

TwitchTypes == {"", "webhook_callback_verification", "revocation", "notification",
                "channel.update"}

NewRequest(platform, messageId, timestamp, hasSignature) ==
    [platform |-> platform, messageId |-> messageId, timestamp |-> timestamp,
     hasSignature |-> hasSignature, body |-> <<>>, type |-> "unread",
     pc |-> "start", promise |-> 0, isValid |-> "none", parsed |-> FALSE,
     status |-> 0, sent |-> ""]

\* a header check that forgets the timestamp
MissingHeaders_NoTimestamp(messageId, timestamp, hasSignature) ==
    messageId = <<>> \/ ~hasSignature

\* `if (!messageId || !timestamp || !providedSignature)`
MissingHeaders(messageId, timestamp, hasSignature) ==
    messageId = <<>> \/ timestamp = <<>> \/ ~hasSignature

\* whether a promise of getInstance has settled, and how
Settled(statics, promise) == statics.inits[promise].state \in {"resolved", "rejected"}

Rejected(statics, promise) == statics.inits[promise].state = "rejected"

\* lines 24-35: read the three headers, answer 400 or call getInstance and await it
TwitchPost ==
    /\ Len(reqs) < MaxReq
    /\ \E messageId \in MessageIds, timestamp \in Timestamps, hasSignature \in BOOLEAN :
         LET req == NewRequest("twitch", messageId, timestamp, hasSignature) IN
         IF MissingHeaders(messageId, timestamp, hasSignature)
         THEN /\ reqs' = Append(reqs, [req EXCEPT !.status = 400, !.pc = "done"])
              /\ twitch' = twitch
         ELSE \E got \in TwitchGetInstance(twitch) :
                /\ twitch' = got.statics
                /\ reqs' = Append(reqs, [req EXCEPT !.pc = "awaitClient",
                                                    !.promise = got.promise])
    /\ UNCHANGED <<env, kick, runs, callers, verifyCall, hist, tokenVars, adminVars>>

\* what a sender may put into twitch-eventsub-message-signature: the signature
\* under any secret, that signature with its last digit changed, with a digit
\* cut off, with a digit appended, or with a non-ASCII character for its last digit
SenderSignature(secret, messageId, timestamp, body) ==
    Sha256Prefix \o HexDigest(HmacSha256(secret, messageId \o timestamp \o body))

OtherHexChar(c) == IF c = 48 THEN 49 ELSE 48

ReplaceLast(str, c) == SubSeq(str, 1, Len(str) - 1) \o <<c>>

ProvidedSignatures(messageId, timestamp, body) ==
    UNION {LET good == SenderSignature(sec, messageId, timestamp, body) IN
           {good, ReplaceLast(good, OtherHexChar(good[Len(good)])),
            SubSeq(good, 1, Len(good) - 1), good \o <<48>>, ReplaceLast(good, 233)}
           : sec \in RandomSecrets \cup {ConfiguredSecret}}

\* line 36: the client arrives (or getInstance's promise rejects and the
\* handler ends in that exception); verifyTwitchSignature runs and is awaited
TwitchVerify(r) ==
    /\ r \in 1..Len(reqs)
    /\ reqs[r].platform = "twitch"
    /\ reqs[r].pc = "awaitClient"
    /\ Settled(twitch, reqs[r].promise)
    /\ IF Rejected(twitch, reqs[r].promise)
       THEN reqs' = [reqs EXCEPT ![r].pc = "threw"]
       ELSE \E body \in TwitchBodies :
            \E provided \in ProvidedSignatures(reqs[r].messageId, reqs[r].timestamp, body) :
              LET secret == twitch.inits[reqs[r].promise].secret
                  result == VerifyTwitchSignature(secret, reqs[r].messageId,
                                                  reqs[r].timestamp, body, provided)
              IN  reqs' = [reqs EXCEPT ![r].body = body, ![r].isValid = result,
                                      ![r].pc = "awaitVerify"]
    /\ UNCHANGED <<env, twitch, kick, runs, callers, verifyCall, hist, tokenVars, adminVars>>

\* what the rest of a handler does: the response it sends (status 0: none),
\* whether it ends in an exception, and the sendMessage call it makes
Threw == [status |-> 0, sent |-> "", pc |-> "threw", start |-> FALSE, userId |-> Undefined]

Respond(status, sent) ==
    [status |-> status, sent |-> sent, pc |-> "done", start |-> FALSE, userId |-> Undefined]

\* a handler that lets every signature pass
Rejects_Never(isValid) == FALSE

\* `if (!isValid)`
Rejects(isValid) == isValid # "true"

\* a challenge branch that answers without the challenge
ChallengeBranch_EmptyBody(json) == Respond(200, "")

\* lines 45-48: res.status(200).send(body.challenge)
ChallengeBranch(json) ==
    Respond(200, IF json.challenge = Undefined THEN "" ELSE json.challenge)

\* a revocation branch that goes on into the notification branch
RevocationBranch_FallsThrough(json) ==
    [Respond(200, "") EXCEPT !.start = TRUE, !.userId = json.event_broadcaster_user_id]

\* lines 49-52: log body.subscription.id, res.status(200).end()
RevocationBranch(json) == IF ~json.subscription THEN Threw ELSE Respond(200, "")

\* a notification branch that awaits sendMessage before it answers
NotificationBranch_AwaitsPipeline(json) ==
    [status |-> 0, sent |-> "", pc |-> "awaitPipeline", start |-> TRUE,
     userId |-> json.event_broadcaster_user_id]

\* a notification branch that passes the wrong field to sendMessage
NotificationBranch_WrongId(json) ==
    [Respond(200, "") EXCEPT !.start = TRUE, !.userId = json.challenge]

\* lines 53-59: read body.event.broadcaster_user_id, res.status(200).end(),
\* then sendMessage('twitch', broadcasterId), not awaited
NotificationBranch(json) ==
    IF ~json.event THEN Threw
    ELSE [Respond(200, "") EXCEPT !.start = TRUE, !.userId = json.event_broadcaster_user_id]

\* a fallthrough that answers 400 for every type it does not know
UnhandledBranch_Always400(type) == Respond(400, "")

\* lines 60-65: 200 for any other type that is there, 400 for none
UnhandledBranch(type) == IF type # "" THEN Respond(200, "") ELSE Respond(400, "")

\* lines 43-65: JSON.parse, then the branch of the message type
TwitchOutcome(type, body) ==
    LET json == JsonParse(body) IN
    IF ~json.ok THEN Threw
    ELSE IF type = "webhook_callback_verification" THEN ChallengeBranch(json)
    ELSE IF type = "revocation" THEN RevocationBranch(json)
    ELSE IF type = "notification" THEN NotificationBranch(json)
    ELSE UnhandledBranch(type)

(***************************************************************************)
(* sendMessage and getStreamWithRetry (functions/message.ts).  A run is    *)
(* one sendMessage invocation.  Calling sendMessage runs it up to its      *)
(* first await, the `await X.getInstance()` of attempt 1.                  *)
(***************************************************************************)
\* getStreamWithRetry's default `retries`
Retries == 6

GetInstance(platform) == IF platform = "twitch" THEN TwitchGetInstance(twitch)
                         ELSE KickGetInstance(kick)

Statics(platform) == IF platform = "twitch" THEN twitch ELSE kick

\* the run a sendMessage(platform, userId) call leaves behind at its first await
NewRun(platform, userId, r, promise) ==
    [platform |-> platform, userId |-> userId, req |-> r, attempt |-> 1,
     pc |-> "awaitClient", promise |-> promise,
     looked |-> FALSE, posts |-> 0, result |-> "none"]

\* the rest of a handler, applied: the response, and the run if one is started
Finish(r, type, outcome, got) ==
    /\ reqs' = [reqs EXCEPT ![r].type = type, ![r].parsed = TRUE,
                            ![r].status = outcome.status, ![r].sent = outcome.sent,
                            ![r].pc = outcome.pc]
    /\ IF outcome.start
       THEN runs' = Append(runs, NewRun(reqs[r].platform, outcome.userId, r, got.promise))
       ELSE runs' = runs

\* lines 38-65: 403 for a signature that did not verify; otherwise parse the
\* body and act on the message type
TwitchDispatch(r) ==
    /\ r \in 1..Len(reqs)
    /\ reqs[r].platform = "twitch"
    /\ reqs[r].pc = "awaitVerify"
    /\ IF reqs[r].isValid = "throw"
       THEN /\ reqs' = [reqs EXCEPT ![r].pc = "threw"]
            /\ UNCHANGED <<twitch, runs>>
       ELSE IF Rejects(reqs[r].isValid)
       THEN /\ reqs' = [reqs EXCEPT ![r].status = 403, ![r].pc = "done"]
            /\ UNCHANGED <<twitch, runs>>
       ELSE \E type \in TwitchTypes :
              LET outcome == TwitchOutcome(type, reqs[r].body) IN
              \E got \in (IF outcome.start THEN TwitchGetInstance(twitch)
                          ELSE {[statics |-> twitch, promise |-> 0]}) :
                /\ twitch' = got.statics
                /\ Finish(r, type, outcome, got)
    /\ UNCHANGED <<env, kick, callers, verifyCall, hist, tokenVars, adminVars>>

(***************************************************************************)
(* POST /events/kick: two segments, up to `await getInstance()` and the    *)
(* rest (verifyKickSignature is synchronous).                              *)
(***************************************************************************)
KickTypes == {"", "livestream.status.updated", "stream.started", "channel.followed"}

\* lines 69-80: read the three headers, answer 400 or call getInstance and await it
KickPost ==
    /\ Len(reqs) < MaxReq
    /\ \E messageId \in MessageIds, timestamp \in Timestamps, hasSignature \in BOOLEAN :
         LET req == NewRequest("kick", messageId, timestamp, hasSignature) IN
         IF MissingHeaders(messageId, timestamp, hasSignature)
         THEN /\ reqs' = Append(reqs, [req EXCEPT !.status = 400, !.pc = "done"])
              /\ kick' = kick
         ELSE \E got \in KickGetInstance(kick) :
                /\ kick' = got.statics
                /\ reqs' = Append(reqs, [req EXCEPT !.pc = "awaitClient",
                                                    !.promise = got.promise])
    /\ UNCHANGED <<env, twitch, runs, callers, verifyCall, hist, tokenVars, adminVars>>

\* what a sender may put into kick-event-signature: Kick's signature of the
\* request, or another number
KickProvidedSignatures(messageId, timestamp, body) ==
    LET good == KickSign(BufferFrom(messageId \o <<46>> \o timestamp \o <<46>> \o body))
    IN  {Base64Encode(good), Base64Encode((good + 1) % 33)}

\* `body.broadcaster_user_id || body.user_id || body.channel_id`
KickBroadcasterId(json) ==
    IF json.broadcaster_user_id # Undefined THEN json.broadcaster_user_id
    ELSE IF json.user_id # Undefined THEN json.user_id
    ELSE json.channel_id

\* lines 88-103: JSON.parse, then the branch of the event type
KickOutcome(type, body) ==
    LET json == JsonParse(body) IN
    IF ~json.ok THEN Threw
    ELSE IF type \in {"livestream.status.updated", "stream.started"}
            /\ KickBroadcasterId(json) # Undefined
    THEN [Respond(200, "") EXCEPT !.start = TRUE, !.userId = KickBroadcasterId(json)]
    ELSE Respond(200, "")

\* lines 81-103: the client arrives; verify, 403 or parse and act on the event type
KickVerifyAndDispatch(r) ==
    /\ r \in 1..Len(reqs)
    /\ reqs[r].platform = "kick"
    /\ reqs[r].pc = "awaitClient"
    /\ Settled(kick, reqs[r].promise)
    /\ \E body \in KickBodies :
       \E provided \in KickProvidedSignatures(reqs[r].messageId, reqs[r].timestamp, body) :
         LET isValid == VerifyKickSignature(kick.inits[reqs[r].promise].publicKey,
                                            reqs[r].messageId, reqs[r].timestamp,
                                            body, provided)
         IN
         IF isValid = "throw"
         THEN /\ reqs' = [reqs EXCEPT ![r].body = body, ![r].isValid = isValid,
                                      ![r].pc = "threw"]
              /\ UNCHANGED <<kick, runs>>
         ELSE IF Rejects(isValid)
         THEN /\ reqs' = [reqs EXCEPT ![r].body = body, ![r].isValid = isValid,
                                      ![r].status = 403, ![r].pc = "done"]
              /\ UNCHANGED <<kick, runs>>
         ELSE \E type \in KickTypes :
                LET outcome == KickOutcome(type, body) IN
                \E got \in (IF outcome.start THEN KickGetInstance(kick)
                            ELSE {[statics |-> kick, promise |-> 0]}) :
                  /\ kick' = got.statics
                  /\ reqs' = [reqs EXCEPT ![r].body = body, ![r].isValid = isValid,
                                          ![r].type = type, ![r].parsed = TRUE,
                                          ![r].status = outcome.status,
                                          ![r].sent = outcome.sent, ![r].pc = outcome.pc]
                  /\ IF outcome.start
                     THEN runs' = Append(runs, NewRun("kick", outcome.userId, r, got.promise))
                     ELSE runs' = runs
    /\ UNCHANGED <<env, twitch, callers, verifyCall, hist, tokenVars, adminVars>>

(***************************************************************************)
(* The attempts of getStreamWithRetry.  A lookup that is sent leaves the   *)
(* run waiting for its response; one that returns without a request (no    *)
(* id given, or the Kick client has no client id) does not.                *)
(***************************************************************************)
SetStatics(platform, statics) ==
    IF platform = "twitch" THEN twitch' = statics /\ kick' = kick
    ELSE kick' = statics /\ twitch' = twitch

\* a loop that gives up one attempt early
NextAttempt_GivesUpEarly(p) ==
    IF runs[p].attempt + 1 >= Retries
    THEN /\ runs' = [runs EXCEPT ![p].attempt = @ + 1, ![p].pc = "done", ![p].result = "null"]
         /\ UNCHANGED <<env, twitch, kick>>
    ELSE \E got \in GetInstance(runs[p].platform) :
           /\ SetStatics(runs[p].platform, got.statics)
           /\ env' = env
           /\ runs' = [runs EXCEPT ![p].attempt = @ + 1, ![p].pc = "awaitClient",
                                   ![p].promise = got.promise]

\* the loop goes round: attempt + 1, then `return null` or the next
\* `await getInstance()`
NextAttempt(p) ==
    IF runs[p].attempt + 1 > Retries
    THEN /\ runs' = [runs EXCEPT ![p].attempt = @ + 1, ![p].pc = "done", ![p].result = "null"]
         /\ UNCHANGED <<env, twitch, kick>>
    ELSE \E got \in GetInstance(runs[p].platform) :
           /\ SetStatics(runs[p].platform, got.statics)
           /\ env' = env
           /\ runs' = [runs EXCEPT ![p].attempt = @ + 1, ![p].pc = "awaitClient",
                                   ![p].promise = got.promise]

\* a not-found branch that goes round without waiting
StartDelay_NoWait(p) == NextAttempt(p)

\* `await new Promise(res => setTimeout(res, delay)); continue`
StartDelay(p) ==
    /\ runs' = [runs EXCEPT ![p].pc = "delay"]
    /\ UNCHANGED <<env, twitch, kick>>

\* getStreamWithRetry returns the data of this attempt; sendMessage builds the
\* message and posts it, or finds no DISCORD_WEBHOOK_URL, logs, and returns.
\* The variable is fixed at start; the model draws it at its first read.
ReturnData(p) ==
    /\ \E url \in (IF env.discordWebhookUrl = "unread" THEN {"set", "unset"}
                   ELSE {env.discordWebhookUrl}) :
         /\ env' = [env EXCEPT !.discordWebhookUrl = url]
         /\ runs' = IF url = "set"
                    THEN [runs EXCEPT ![p].pc = "post", ![p].result = "data",
                                      ![p].posts = @ + 1]
                    ELSE [runs EXCEPT ![p].pc = "done", ![p].result = "data"]
    /\ UNCHANGED <<twitch, kick>>

\* whether the client sends the lookup: getStream and getUserFromId return
\* {data: null} at once for a falsy id; Kick's makeApiRequest throws at once
\* without a client id, which getChannel and getUser turn into null
SendsLookup(platform, userId, client) ==
    IF platform = "twitch" THEN userId # Undefined ELSE client.clientId

\* lines 20-21 and 47-48: the client arrives and the stream (channel) lookup starts
RunLookups(p) ==
    /\ p \in 1..Len(runs)
    /\ runs[p].pc = "awaitClient"
    /\ Settled(Statics(runs[p].platform), runs[p].promise)
    /\ IF Rejected(Statics(runs[p].platform), runs[p].promise)
       THEN NextAttempt(p)
       ELSE IF SendsLookup(runs[p].platform, runs[p].userId,
                           Statics(runs[p].platform).inits[runs[p].promise])
       THEN /\ runs' = [runs EXCEPT ![p].pc = "lookups", ![p].looked = TRUE]
            /\ UNCHANGED <<env, twitch, kick>>
       ELSE StartDelay(p)
    /\ UNCHANGED <<reqs, callers, verifyCall>>

\* what the stream lookup may come back with.  Twitch: a stream, an empty
\* list, an error.  Kick: a channel whose stream is live, one whose stream
\* says is_live false, one without any stream object, an error
StreamAnswers(platform) ==
    IF platform = "twitch" THEN {"live", "empty", "error"}
    ELSE {"live", "offline", "nostream", "error"}

\* what the user lookup may come back with
UserAnswers == {"found", "empty", "error"}

\* a Twitch attempt that does not look at the broadcaster lookup's answer
TwitchJudge_IgnoresUser(stream, user) ==
    IF stream = "error" THEN "catch"
    ELSE IF stream = "empty" THEN "delay"
    ELSE "return"

\* lines 21-45: what a Twitch attempt does with the answers of its lookups.
\* An error of either lookup is thrown into the catch of the attempt; an
\* empty stream or user list takes a delaying branch
TwitchJudge(stream, user) ==
    IF stream = "error" \/ user = "error" THEN "catch"
    ELSE IF stream = "empty" \/ user = "empty" THEN "delay"
    ELSE "return"

\* lines 48-81: getChannel and getUser have turned errors into null; no
\* channel, or a stream saying is_live false, delays; userResult is only
\* read through `?.` with fallbacks
KickJudge(stream, user) ==
    IF stream \in {"error", "offline"} THEN "delay" ELSE "return"

Judge(platform, stream, user) ==
    IF platform = "twitch" THEN TwitchJudge(stream, user) ELSE KickJudge(stream, user)

\* both lookups have settled with these answers and the attempt is judged
AttemptJudged(p, stream, user) ==
    LET verdict == Judge(runs[p].platform, stream, user) IN
    IF verdict = "catch" THEN NextAttempt(p)
    ELSE IF verdict = "delay" THEN StartDelay(p)
    ELSE ReturnData(p)

RunLookupsDone(p) ==
    /\ p \in 1..Len(runs)
    /\ runs[p].pc = "lookups"
    /\ \E stream \in StreamAnswers(runs[p].platform), user \in UserAnswers :
         AttemptJudged(p, stream, user)
    /\ UNCHANGED <<reqs, callers, verifyCall>>

\* the delay of a failed attempt has passed
RunDelayDone(p) ==
    /\ p \in 1..Len(runs)
    /\ runs[p].pc = "delay"
    /\ NextAttempt(p)
    /\ UNCHANGED <<reqs, callers, verifyCall>>

\* what the Discord request may come to: a 2xx, another status, a thrown fetch
DiscordAnswers == {"2xx", "non2xx", "thrown"}

\* a sendMessage that lets a thrown fetch escape
AfterPost_Rethrows(run, answer) ==
    [run EXCEPT !.pc = IF answer = "thrown" THEN "rejected" ELSE "done"]

\* lines 139-146: a non-2xx is logged, a thrown fetch is caught and logged;
\* sendMessage logs and returns
AfterPost(run, answer) == [run EXCEPT !.pc = "done"]

\* lines 134-145: the Discord request settles
PostSettled(p, answer) ==
    /\ runs' = [runs EXCEPT ![p] = AfterPost(@, answer)]
    /\ UNCHANGED <<env, twitch, kick>>

RunPostDone(p) ==
    /\ p \in 1..Len(runs)
    /\ runs[p].pc = "post"
    /\ \E answer \in DiscordAnswers : PostSettled(p, answer)
    /\ UNCHANGED <<reqs, callers, verifyCall>>

(***************************************************************************)
(* The system.                                                             *)
(***************************************************************************)
Next ==
    \/ TwitchPost
    \/ KickPost
    \/ \E i \in 1..Len(twitch.inits) : TwitchInitFetchDone(i)
    \/ \E i \in 1..Len(kick.inits) : KickPublicKeyDone(i) \/ KickInitFetchDone(i)
    \/ \E r \in 1..Len(reqs) : TwitchVerify(r) \/ TwitchDispatch(r) \/ KickVerifyAndDispatch(r)
    \/ \E p \in 1..Len(runs) :
         /\ \/ RunLookups(p)
            \/ RunLookupsDone(p)
            \/ RunDelayDone(p)
            \/ RunPostDone(p)
         /\ UNCHANGED <<hist, tokenVars, adminVars>>

Spec == Init /\ [][Next]_vars

(***************************************************************************)
(* getInstance under concurrent callers: any code that awaits              *)
(* X.getInstance() (startup, the subscription helpers, the handlers).      *)
(***************************************************************************)
Platforms == {"twitch", "kick"}

\* `await X.getInstance()`: the call, up to the await
CallGetInstance(platform) ==
    /\ Len(callers) < MaxCallers
    /\ \E got \in GetInstance(platform) :
         /\ SetStatics(platform, got.statics)
         /\ callers' = Append(callers,
                [platform |-> platform, promise |-> got.promise, pc |-> "await",
                 pending |-> ~Settled(got.statics, got.promise), client |-> 0])
    /\ UNCHANGED <<env, reqs, runs, verifyCall, hist, tokenVars, adminVars>>

\* the await ends: with the client the promise resolved to, or with its rejection
CallerResume(c) ==
    /\ c \in 1..Len(callers)
    /\ callers[c].pc = "await"
    /\ Settled(Statics(callers[c].platform), callers[c].promise)
    /\ callers' = IF Rejected(Statics(callers[c].platform), callers[c].promise)
                  THEN [callers EXCEPT ![c].pc = "rejected"]
                  ELSE [callers EXCEPT ![c].pc = "resolved", ![c].client = callers[c].promise]
    /\ UNCHANGED <<env, twitch, kick, reqs, runs, verifyCall, hist, tokenVars, adminVars>>

SingletonNext ==
    \/ \E platform \in Platforms : CallGetInstance(platform)
    \/ \E i \in 1..Len(twitch.inits) : TwitchInitFetchDone(i)
    \/ \E i \in 1..Len(kick.inits) : KickPublicKeyDone(i) \/ KickInitFetchDone(i)
    \/ \E c \in 1..Len(callers) : CallerResume(c)

SingletonSpec == Init /\ [][SingletonNext]_vars

(***************************************************************************)
(* verifyTwitchSignature as a function of its arguments.                   *)
(***************************************************************************)
VerifySecrets == RandomSecrets \cup {ConfiguredSecret}

\* "m", "mt" and "t", "tt": ids and timestamps whose concatenations overlap
VerifyMessageIds == {<<109>>, <<109, 116>>}

VerifyTimestamps == {<<116>>, <<116, 116>>}

\* the arguments of one call, not yet made
VerifyInit ==
    /\ env \in [twitchCredentials : BOOLEAN, kickCredentials : BOOLEAN,
                eventsubSecret : {<<>>, ConfiguredSecret}, discordWebhookUrl : {"unread"}]
    /\ twitch = [instance |-> 0, instancePromise |-> 0, inits |-> <<>>]
    /\ kick = [instance |-> 0, instancePromise |-> 0, inits |-> <<>>]
    /\ reqs = <<>>
    /\ runs = <<>>
    /\ callers = <<>>
    /\ hist = <<>>
    /\ now = 0
    /\ expiry = NoExpiryCall
    /\ oauth = NoOAuthClient
    /\ filed = NoFileClient
    /\ AdminIdle
    /\ \E secret \in VerifySecrets, messageId \in VerifyMessageIds,
          timestamp \in VerifyTimestamps, body \in TwitchBodies :
       \E provided \in ProvidedSignatures(messageId, timestamp, body) :
         verifyCall = [secret |-> secret, messageId |-> messageId, timestamp |-> timestamp,
                       body |-> body, providedSignature |-> provided, result |-> "none"]

\* the call
VerifyTwitchCall ==
    /\ verifyCall.result = "none"
    /\ verifyCall' = [verifyCall EXCEPT !.result =
                        VerifyTwitchSignature(verifyCall.secret, verifyCall.messageId,
                                              verifyCall.timestamp, verifyCall.body,
                                              verifyCall.providedSignature)]
    /\ UNCHANGED <<env, twitch, kick, reqs, runs, callers, hist, tokenVars, adminVars>>

VerifySpec == VerifyInit /\ [][VerifyTwitchCall]_vars

(***************************************************************************)
(* sendMessage under observation.  An invocation is followed through its   *)
(* attempts; `hist` keeps, per invocation, what the client reported to     *)
(* each attempt and what the invocation did: lookups issued, delays        *)
(* started, milliseconds waited, the answers the returned data was built   *)
(* from, and how the Discord request ended.                                *)
(***************************************************************************)
\* sendMessage invocations followed in one behaviour
MaxSends == 1

\* getStreamWithRetry's default `delay`, in ms
Delay == 5000

\* the sendMessage calls of server.ts: line 57 passes
\* body.event.broadcaster_user_id, which may be undefined; line 97 passes the
\* string of an id it has tested
SendCalls == {[platform |-> "twitch", userId |-> "123"],
              [platform |-> "twitch", userId |-> Undefined],
              [platform |-> "kick", userId |-> "7"]}

NoData == [stream |-> "none", user |-> "none"]

NoHistory == [notFound |-> 0, errors |-> 0, lookups |-> 0, delays |-> 0,
              waited |-> 0, data |-> NoData, post |-> "none"]

\* sendMessage(platform, userId), up to the first await of getStreamWithRetry
SendMessage ==
    /\ Len(runs) < MaxSends
    /\ \E call \in SendCalls :
       \E got \in GetInstance(call.platform) :
         /\ SetStatics(call.platform, got.statics)
         /\ runs' = Append(runs, NewRun(call.platform, call.userId, 0, got.promise))
         /\ hist' = Append(hist, NoHistory)
    /\ UNCHANGED <<env, reqs, callers, verifyCall, tokenVars, adminVars>>

\* what the client's lookups told the attempt: an error thrown to it, a
\* not-live or not-found answer, or data.  The Twitch client throws its
\* errors; the Kick client's getChannel answers null for them, and a channel
\* answer is data whatever getUser answered
Reports(platform, stream, user) ==
    IF platform = "twitch"
    THEN IF stream = "error" \/ user = "error" THEN "error"
         ELSE IF stream = "empty" \/ user = "empty" THEN "notfound"
         ELSE "data"
    ELSE IF stream \in {"error", "offline"} THEN "notfound" ELSE "data"

\* the same for an attempt that ended before any answer: getInstance
\* rejected, or the client answered without a request
ReportsAtOnce(p) ==
    IF Rejected(Statics(runs[p].platform), runs[p].promise) THEN "error"
    ELSE IF ~SendsLookup(runs[p].platform, runs[p].userId,
                         Statics(runs[p].platform).inits[runs[p].promise])
    THEN "notfound"
    ELSE "none"

\* the step just taken by invocation p, entered into its history
Observe(p, report, data, post) ==
    hist' = [hist EXCEPT ![p] =
               [notFound |-> @.notFound + (IF report = "notfound" THEN 1 ELSE 0),
                errors   |-> @.errors + (IF report = "error" THEN 1 ELSE 0),
                lookups  |-> @.lookups + (IF runs'[p].pc = "lookups" THEN 1 ELSE 0),
                delays   |-> @.delays + (IF runs'[p].pc = "delay" THEN 1 ELSE 0),
                waited   |-> @.waited + (IF runs[p].pc = "delay" THEN Delay ELSE 0),
                data     |-> IF report = "data" THEN data ELSE @.data,
                post     |-> IF post # "none" THEN post ELSE @.post]]

ObservedLookups(p) ==
    /\ RunLookups(p)
    /\ Observe(p, ReportsAtOnce(p), NoData, "none")

ObservedLookupsDone(p) ==
    /\ p \in 1..Len(runs)
    /\ runs[p].pc = "lookups"
    /\ \E stream \in StreamAnswers(runs[p].platform), user \in UserAnswers :
         /\ AttemptJudged(p, stream, user)
         /\ Observe(p, Reports(runs[p].platform, stream, user),
                    [stream |-> stream, user |-> user], "none")
    /\ UNCHANGED <<reqs, callers, verifyCall>>

ObservedDelayDone(p) ==
    /\ RunDelayDone(p)
    /\ Observe(p, "none", NoData, "none")

ObservedPostDone(p) ==
    /\ p \in 1..Len(runs)
    /\ runs[p].pc = "post"
    /\ \E answer \in DiscordAnswers :
         /\ PostSettled(p, answer)
         /\ Observe(p, "none", NoData, answer)
    /\ UNCHANGED <<reqs, callers, verifyCall>>

PipelineNext ==
    \/ SendMessage
    \/ \E i \in 1..Len(twitch.inits) : TwitchInitFetchDone(i)
    \/ \E i \in 1..Len(kick.inits) : KickPublicKeyDone(i) \/ KickInitFetchDone(i)
    \/ \E p \in 1..Len(runs) : ObservedLookups(p) /\ UNCHANGED <<tokenVars, adminVars>>
    \/ \E p \in 1..Len(runs) : ObservedLookupsDone(p) /\ UNCHANGED <<tokenVars, adminVars>>
    \/ \E p \in 1..Len(runs) : ObservedDelayDone(p) /\ UNCHANGED <<tokenVars, adminVars>>
    \/ \E p \in 1..Len(runs) : ObservedPostDone(p) /\ UNCHANGED <<tokenVars, adminVars>>

PipelineSpec == Init /\ [][PipelineNext]_vars

(***************************************************************************)
(* Token expiry.  A stored token is a record of accessToken, refreshToken  *)
(* (0: none), expiresIn (seconds) and obtainmentTimestamp (ms); access and *)
(* refresh tokens are named by the serial number of their issue.  The four *)
(* clients (auth/twitch/auth.ts, auth/kick/auth.ts, the OAuth variant of   *)
(* the Kick client, functions/auth.ts) have the same isTokenExpired.       *)
(***************************************************************************)
\* a check that takes the threshold itself for expired
IsTokenExpired_AtThreshold(token, t) ==
    IF token = NoToken THEN TRUE
    ELSE t >= token[1].obtainmentTimestamp + (token[1].expiresIn - 60) * 1000

\* isTokenExpired(token) at Date.now() = t
IsTokenExpired(token, t) ==
    IF token = NoToken THEN TRUE
    ELSE t > token[1].obtainmentTimestamp + (token[1].expiresIn - 60) * 1000

\* the tokens and clock readings of the isTokenExpired calls checked
ExpiryTokens ==
    {NoToken} \cup
    {<<[accessToken |-> 1, refreshToken |-> 0, expiresIn |-> e, obtainmentTimestamp |-> o]>> :
        e \in {0, 60, 61, 3600}, o \in {0, 1000, 5000}}

ExpiryNows == {0, 1, 999, 1000, 1001, 2000, 5999, 6000, 6001, 3540000, 3540001, 3545000}

\* the argument of one call and the clock, the call not yet made
ExpiryInit ==
    /\ env \in [twitchCredentials : BOOLEAN, kickCredentials : BOOLEAN,
                eventsubSecret : {<<>>, ConfiguredSecret}, discordWebhookUrl : {"unread"}]
    /\ twitch = [instance |-> 0, instancePromise |-> 0, inits |-> <<>>]
    /\ kick = [instance |-> 0, instancePromise |-> 0, inits |-> <<>>]
    /\ reqs = <<>>
    /\ runs = <<>>
    /\ callers = <<>>
    /\ verifyCall = NoVerifyCall
    /\ hist = <<>>
    /\ oauth = NoOAuthClient
    /\ filed = NoFileClient
    /\ AdminIdle
    /\ now \in ExpiryNows
    /\ \E token \in ExpiryTokens : expiry = [token |-> token, result |-> "none"]

\* the call
IsTokenExpiredCall ==
    /\ expiry.result = "none"
    /\ expiry' = [expiry EXCEPT !.result =
                    IF IsTokenExpired(expiry.token, now) THEN "true" ELSE "false"]
    /\ UNCHANGED <<adminVars, notifierVars, now, oauth, filed>>

ExpirySpec == ExpiryInit /\ [][IsTokenExpiredCall]_vars

(***************************************************************************)
(* The Kick client of the OAuth variant: a user token kept in memory and   *)
(* in kick.json, refreshed with the refresh-token grant.  Calls of         *)
(* getValidAccessToken run concurrently; each step below runs one call     *)
(* from one await to the next.                                             *)
(***************************************************************************)
\* getValidAccessToken calls made in one behaviour, per client
MaxTokenCalls == 2

\* the clock advances in steps of one second, this many times
MaxTicks == 2

\* expires_in of the tokens the endpoints issue: above 60 s
IssuedExpiresIn == {61, 62}

\* the n-th token issued
Token(n, refreshToken, expiresIn, t) ==
    <<[accessToken |-> n, refreshToken |-> refreshToken, expiresIn |-> expiresIn,
       obtainmentTimestamp |-> t]>>

\* what kick.json may hold when the client is constructed: nothing, or a
\* token saved at time 0, with or without a refresh_token
StoredKickTokens == {NoToken} \cup {Token(1, r, 61, 0) : r \in {0, 1}}

Tick ==
    /\ now < MaxTicks * 1000
    /\ now' = now + 1000
    /\ UNCHANGED <<adminVars, notifierVars, expiry, oauth, filed>>

\* an environment with every variable set
ConfiguredEnv == [twitchCredentials |-> TRUE, kickCredentials |-> TRUE,
                  eventsubSecret |-> ConfiguredSecret, discordWebhookUrl |-> "unread"]

\* the constructor has run loadToken
OAuthInit ==
    /\ env = ConfiguredEnv
    /\ twitch = [instance |-> 0, instancePromise |-> 0, inits |-> <<>>]
    /\ kick = [instance |-> 0, instancePromise |-> 0, inits |-> <<>>]
    /\ reqs = <<>>
    /\ runs = <<>>
    /\ callers = <<>>
    /\ verifyCall = NoVerifyCall
    /\ hist = <<>>
    /\ now = 0
    /\ expiry = NoExpiryCall
    /\ filed = NoFileClient
    /\ AdminIdle
    /\ \E stored \in StoredKickTokens :
         oauth = [userToken |-> stored, file |-> stored,
                  issued |-> IF stored = NoToken THEN 0 ELSE 1, used |-> {}, calls |-> <<>>]

\* a getValidAccessToken call as it starts; `method` is the API method whose
\* makeApiRequest made the call, where there is one
NewTokenCall(type, token, t, issued) ==
    [type |-> type, pc |-> "start", method |-> "getValidAccessToken",
     apiRequests |-> 0, sentWith |-> "none", writing |-> <<>>,
     found |-> IF token = NoToken THEN "none"
               ELSE IF IsTokenExpired(token, t) THEN "expired" ELSE "fresh",
     foundToken |-> IF token = NoToken THEN 0 ELSE token[1].accessToken,
     since |-> issued, requests |-> 0, outcome |-> "none", cleared |-> FALSE,
     returned |-> 0]

\* a clearToken that leaves the file
ClearToken_KeepsFile(o) == [o EXCEPT !.userToken = NoToken]

\* clearToken: the field and the file
ClearToken(o) == [o EXCEPT !.userToken = NoToken, !.file = <<>>]

\* saveToken(tokens): the field and the file, stamped with Date.now()
SaveToken(o, refreshToken, expiresIn, t) ==
    [o EXCEPT !.issued = @ + 1,
              !.userToken = Token(o.issued + 1, refreshToken, expiresIn, t),
              !.file = Token(o.issued + 1, refreshToken, expiresIn, t)]

\* getValidAccessToken up to its first await, or to its return or throw
\* without one.  refreshToken returns at once, without a request, when the
\* stored token has no refresh token
OAuthGetValidAccessToken ==
    /\ Len(oauth.calls) < MaxTokenCalls
    /\ LET call == NewTokenCall("user", oauth.userToken, now, oauth.issued) IN
       oauth' = [oauth EXCEPT !.calls = Append(@,
           IF oauth.userToken = NoToken THEN [call EXCEPT !.pc = "threw"]
           ELSE IF IsTokenExpired(oauth.userToken, now)
           THEN IF oauth.userToken[1].refreshToken = 0
                THEN [call EXCEPT !.pc = "resume", !.outcome = "norequest"]
                ELSE [call EXCEPT !.pc = "fetch", !.requests = 1]
           ELSE [call EXCEPT !.pc = "returned",
                             !.returned = oauth.userToken[1].accessToken])]
    /\ UNCHANGED <<adminVars, notifierVars, now, expiry, filed>>

\* what a token request may come to
TokenAnswers == {"ok", "non2xx", "thrown"}

\* refreshToken after its fetch: a non-2xx clears the token, a 2xx saves the
\* new one, a thrown fetch leaves refreshToken and getValidAccessToken by
\* the exception
RefreshSettled(c, answer, r, e) ==
    CASE answer = "ok" ->
           [SaveToken(oauth, r, e, now) EXCEPT
              !.calls[c].pc = "resume", !.calls[c].outcome = "ok"]
      [] answer = "non2xx" ->
           [ClearToken(oauth) EXCEPT
              !.calls[c].pc = "resume", !.calls[c].outcome = "non2xx",
              !.calls[c].cleared = (ClearToken(oauth).userToken = NoToken
                                    /\ ClearToken(oauth).file = <<>>)]
      [] OTHER ->
           [oauth EXCEPT !.calls[c].pc = "threw", !.calls[c].outcome = "thrown"]

OAuthRefreshSettles(c) ==
    /\ c \in 1..Len(oauth.calls)
    /\ oauth.calls[c].pc = "fetch"
    /\ \E answer \in TokenAnswers :
       \E r \in IF answer = "ok" THEN {0, oauth.issued + 1} ELSE {0},
          e \in IF answer = "ok" THEN IssuedExpiresIn ELSE {61} :
         oauth' = RefreshSettled(c, answer, r, e)
    /\ UNCHANGED <<adminVars, notifierVars, now, expiry, filed>>

\* `await this.refreshToken()` is over: throw without a token, else return
\* the stored token's accessToken
OAuthResume(c) ==
    /\ c \in 1..Len(oauth.calls)
    /\ oauth.calls[c].pc = "resume"
    /\ oauth' = IF oauth.userToken = NoToken
                THEN [oauth EXCEPT !.calls[c].pc = "threw"]
                ELSE [oauth EXCEPT !.calls[c].pc = "returned",
                                   !.calls[c].returned = oauth.userToken[1].accessToken]
    /\ UNCHANGED <<adminVars, notifierVars, now, expiry, filed>>

OAuthNext ==
    \/ Tick
    \/ OAuthGetValidAccessToken
    \/ \E c \in 1..Len(oauth.calls) : OAuthRefreshSettles(c)
    \/ \E c \in 1..Len(oauth.calls) : OAuthResume(c)

OAuthSpec == OAuthInit /\ [][OAuthNext]_vars

(***************************************************************************)
(* The same client against an auth server that accepts each refresh token  *)
(* once: `used` are the refresh tokens it has accepted.  The server        *)
(* decides when a request reaches it; the client handles the responses in  *)
(* whatever order they arrive.  A stored token's refresh token bears the   *)
(* token's own number.                                                     *)
(***************************************************************************)
\* the refresh request of call c reaches the server
OnceServerAnswers(c) ==
    /\ c \in 1..Len(oauth.calls)
    /\ oauth.calls[c].pc = "fetch"
    /\ oauth' = [oauth EXCEPT
                   !.used = @ \cup {oauth.calls[c].foundToken},
                   !.calls[c].pc = "answered",
                   !.calls[c].outcome = IF oauth.calls[c].foundToken \in oauth.used
                                        THEN "non2xx" ELSE "ok"]
    /\ UNCHANGED <<adminVars, notifierVars, now, expiry, filed>>

\* refreshToken after its fetch, with the answer the server gave
OnceRefreshSettles(c) ==
    /\ c \in 1..Len(oauth.calls)
    /\ oauth.calls[c].pc = "answered"
    /\ \E e \in IssuedExpiresIn :
         oauth' = RefreshSettled(c, oauth.calls[c].outcome, oauth.issued + 1, e)
    /\ UNCHANGED <<adminVars, notifierVars, now, expiry, filed>>

OnceNext ==
    \/ Tick
    \/ OAuthGetValidAccessToken
    \/ \E c \in 1..Len(oauth.calls) : OnceServerAnswers(c)
    \/ \E c \in 1..Len(oauth.calls) : OnceRefreshSettles(c)
    \/ \E c \in 1..Len(oauth.calls) : OAuthResume(c)

OnceSpec == OAuthInit /\ [][OnceNext]_vars

(***************************************************************************)
(* The Twitch client of the file variant (functions/auth.ts): a user token *)
(* and an app token, each in memory and in its file.  create() has read    *)
(* user_token.json if it was there and has read or fetched the app token.  *)
(***************************************************************************)
TokenTypes == {"user", "app"}

\* expires_in of the tokens Twitch issues to this client: above 60 s
TwitchExpiresIn == {61}

\* what user_token.json may hold when the client is created: nothing, or a
\* token saved at time 0, with or without a refreshToken
StoredUserTokens == {NoToken} \cup {Token(1, r, 61, 0) : r \in {0, 1}}

FiledInit ==
    /\ env = ConfiguredEnv
    /\ twitch = [instance |-> 0, instancePromise |-> 0, inits |-> <<>>]
    /\ kick = [instance |-> 0, instancePromise |-> 0, inits |-> <<>>]
    /\ reqs = <<>>
    /\ runs = <<>>
    /\ callers = <<>>
    /\ verifyCall = NoVerifyCall
    /\ hist = <<>>
    /\ now = 0
    /\ expiry = NoExpiryCall
    /\ oauth = NoOAuthClient
    /\ AdminIdle
    /\ \E stored \in StoredUserTokens, e \in TwitchExpiresIn :
         filed = [userTokens |-> stored, userFile |-> stored,
                  appTokens |-> Token(2, 0, e, 0), appFile |-> Token(2, 0, e, 0),
                  issued |-> 2, requests |-> 0, calls |-> <<>>]

TokensOf(f, type) == IF type = "user" THEN f.userTokens ELSE f.appTokens

\* the public API methods that administer subscriptions; the lookups
\* (getUserFromId, getUserFromName, getStream) reach makeApiRequest with the
\* default tokenType, as createEventSubSubscription does with 'user'
FiledMethods == {"listEventSubSubscriptions", "createEventSubSubscription",
                 "deleteEventSubSubscription"}

\* the tokenType each method hands to makeApiRequest; 'user' is the default
TokenTypeOf(method) ==
    CASE method = "listEventSubSubscriptions" -> "app"
      [] method = "createEventSubSubscription" -> "user"
      [] method = "deleteEventSubSubscription" -> "app"
      [] OTHER -> "user"

\* a refreshUserAccessToken that never refuses
CannotRefresh_Never(tokens) == FALSE

\* `if (!this.userTokens?.refreshToken) throw`
CannotRefresh(tokens) == tokens = NoToken \/ tokens[1].refreshToken = 0

\* a token request that is sent again after it failed
TokenFetchFailed_Retries(call, answer) ==
    [call EXCEPT !.outcome = answer, !.requests = @ + 1]

\* a token request answered non-2xx, or thrown: fetchAppAccessToken /
\* refreshUserAccessToken throw, and so do getValidAccessToken and
\* makeApiRequest
TokenFetchFailed(call, answer) ==
    [call EXCEPT !.outcome = answer, !.pc = "threw"]

\* makeApiRequest: the API request goes out with the access token of the kind
\* asked for, which is `token`
SendApiRequest(call, token) ==
    [call EXCEPT !.pc = "api", !.apiRequests = 1, !.sentWith = call.type]

\* makeApiRequest from its call by `method` to its first await that waits for
\* the network: getValidAccessToken(type) returns at once, throws at once, or
\* issues the token request
FiledGetValidAccessToken(method, type) ==
    /\ filed # NoFileClient
    /\ Len(filed.calls) < MaxTokenCalls
    /\ LET call == [NewTokenCall(type, TokensOf(filed, type), now, 0)
                      EXCEPT !.method = method, !.foundToken = 0] IN
       IF ~IsTokenExpired(TokensOf(filed, type), now)
       THEN filed' = [filed EXCEPT !.requests = @ + 1,
                                   !.calls = Append(@, SendApiRequest(call, TokensOf(filed, type)))]
       ELSE IF type = "user" /\ CannotRefresh(filed.userTokens)
       THEN filed' = [filed EXCEPT !.calls = Append(@, [call EXCEPT !.pc = "threw",
                                                                   !.outcome = "norequest"])]
       ELSE filed' = [filed EXCEPT !.requests = @ + 1,
                                   !.calls = Append(@, [call EXCEPT !.pc = "fetch",
                                                                    !.requests = 1])]
    /\ UNCHANGED <<adminVars, notifierVars, now, expiry, oauth>>

FiledMakeApiRequest(method) == FiledGetValidAccessToken(method, TokenTypeOf(method))

\* writeTokens(type, tokens) up to its await: the field is set at once
WriteTokens(f, type, tokens) ==
    IF type = "user" THEN [f EXCEPT !.userTokens = tokens]
    ELSE [f EXCEPT !.appTokens = tokens]

\* fs.writeFile has written the file
WriteFile(f, type, tokens) ==
    IF type = "user" THEN [f EXCEPT !.userFile = tokens]
    ELSE [f EXCEPT !.appFile = tokens]

\* refreshUserAccessToken / fetchAppAccessToken after the fetch: anything
\* but a 2xx is thrown; on a 2xx writeTokens sets the field and starts the
\* file write
FiledFetchSettles(c) ==
    /\ c \in 1..Len(filed.calls)
    /\ filed.calls[c].pc = "fetch"
    /\ \E answer \in TokenAnswers :
         IF answer = "ok"
         THEN \E e \in TwitchExpiresIn :
                LET n == filed.issued + 1
                    tokens == Token(n, IF filed.calls[c].type = "user" THEN n ELSE 0, e, now)
                IN  filed' = [WriteTokens(filed, filed.calls[c].type, tokens) EXCEPT
                                !.issued = n,
                                !.calls[c].outcome = "ok",
                                !.calls[c].writing = tokens,
                                !.calls[c].pc = "writing"]
         ELSE filed' = [filed EXCEPT !.calls[c] = TokenFetchFailed(@, answer)]
    /\ UNCHANGED <<adminVars, notifierVars, now, expiry, oauth>>

\* fs.writeFile of writeTokens completes, in whatever order the writes were
\* started: the file holds what this call wrote, or the write failed and the
\* call throws
FiledWriteDone(c) ==
    /\ c \in 1..Len(filed.calls)
    /\ filed.calls[c].pc = "writing"
    /\ \E written \in BOOLEAN :
         filed' = IF written
                  THEN [WriteFile(filed, filed.calls[c].type, filed.calls[c].writing) EXCEPT
                          !.calls[c].pc = "resume", !.calls[c].writing = <<>>]
                  ELSE [filed EXCEPT !.calls[c].pc = "threw",
                                     !.calls[c].outcome = "writeFailed",
                                     !.calls[c].writing = <<>>]
    /\ UNCHANGED <<adminVars, notifierVars, now, expiry, oauth>>

\* line 104 and makeApiRequest after it: the accessToken of the token now
\* stored goes out with the API request
FiledResume(c) ==
    /\ c \in 1..Len(filed.calls)
    /\ filed.calls[c].pc = "resume"
    /\ filed' = [filed EXCEPT !.requests = @ + 1,
                              !.calls[c] = SendApiRequest(@, TokensOf(filed, filed.calls[c].type))]
    /\ UNCHANGED <<adminVars, notifierVars, now, expiry, oauth>>

\* what an API request may come to
ApiAnswers == {"ok", "failed"}

\* makeApiRequest after its fetch: anything but a 2xx is thrown
ApiSettled(call, answer) ==
    [call EXCEPT !.pc = IF answer = "ok" THEN "returned" ELSE "threw"]

FiledApiSettles(c) ==
    /\ c \in 1..Len(filed.calls)
    /\ filed.calls[c].pc = "api"
    /\ \E answer \in ApiAnswers : filed' = [filed EXCEPT !.calls[c] = ApiSettled(@, answer)]
    /\ UNCHANGED <<adminVars, notifierVars, now, expiry, oauth>>

FiledNext ==
    \/ Tick
    \/ \E method \in FiledMethods : FiledMakeApiRequest(method)
    \/ \E c \in 1..Len(filed.calls) : FiledFetchSettles(c)
    \/ \E c \in 1..Len(filed.calls) : FiledWriteDone(c)
    \/ \E c \in 1..Len(filed.calls) : FiledResume(c)
    \/ \E c \in 1..Len(filed.calls) : FiledApiSettles(c)

FiledSpec == FiledInit /\ [][FiledNext]_vars

(***************************************************************************)
(* An app-token client under API calls: the Twitch client of               *)
(* functions/auth/twitch/auth.ts or the Kick client of                     *)
(* functions/auth/kick/auth.ts, after getInstance has published it.  The   *)
(* token is kept in memory only.                                           *)
(***************************************************************************)
ApiVariants == {"twitch", "kick"}

\* the public methods that reach makeApiRequest; the Twitch lookups all go
\* the way of getStream, list and delete the way of create
ApiMethods(variant) ==
    IF variant = "twitch" THEN {"createEventSubSubscription", "getStream"}
    ELSE {"createEventSubSubscription", "getChannel", "getUser"}

\* Kick's getChannel and getUser wrap makeApiRequest in try/catch and return
\* null from the catch
Catches(variant, method) == variant = "kick" /\ method \in {"getChannel", "getUser"}

\* what the caller of the public method gets when makeApiRequest has thrown
Caught(variant, call) ==
    IF call.pc = "threw" /\ Catches(variant, call.method)
    THEN [call EXCEPT !.pc = "null"] ELSE call

\* the client getInstance publishes.  Twitch: initializeTokens has stored a
\* token, or there would be no client.  Kick: without credentials the
\* clientId is empty and nothing was fetched; with them the token request of
\* initialize may have failed
ApiClients ==
    {[variant |-> "twitch", clientId |-> TRUE, appToken |-> Token(1, 0, e, 0),
      issued |-> 1, requests |-> 0, calls |-> <<>>] : e \in TwitchExpiresIn}
    \cup {[variant |-> "kick", clientId |-> FALSE, appToken |-> NoToken,
           issued |-> 0, requests |-> 0, calls |-> <<>>]}
    \cup {[variant |-> "kick", clientId |-> TRUE, appToken |-> t,
           issued |-> Len(t), requests |-> 0, calls |-> <<>>] :
            t \in {NoToken} \cup {Token(1, 0, e, 0) : e \in IssuedExpiresIn}}

\* one client is under API calls: an app-token client, or the Twitch client
\* of the file variant
ApiInit ==
    \/ FiledInit
    \/ /\ env = ConfiguredEnv
       /\ twitch = [instance |-> 0, instancePromise |-> 0, inits |-> <<>>]
       /\ kick = [instance |-> 0, instancePromise |-> 0, inits |-> <<>>]
       /\ reqs = <<>>
       /\ runs = <<>>
       /\ callers = <<>>
       /\ verifyCall = NoVerifyCall
       /\ hist = <<>>
       /\ now = 0
       /\ expiry = NoExpiryCall
       /\ oauth = NoOAuthClient
       /\ filed = NoFileClient
       /\ api \in ApiClients
       /\ pkceStore = NoPkce
       /\ callbacks = <<>>
       /\ startup = NoStartup

\* a public method from its call to the first await that waits for the
\* network: Kick's makeApiRequest throws without a clientId; else
\* getValidAccessToken returns the stored token or issues the token request
ApiMakeApiRequest(method) ==
    /\ api.variant # "none"
    /\ method \in ApiMethods(api.variant)
    /\ Len(api.calls) < MaxTokenCalls
    /\ LET call == [NewTokenCall("app", api.appToken, now, 0)
                      EXCEPT !.method = method, !.foundToken = 0] IN
       IF ~api.clientId
       THEN api' = [api EXCEPT !.calls = Append(@,
                       Caught(api.variant, [call EXCEPT !.pc = "threw",
                                                        !.outcome = "norequest"]))]
       ELSE IF ~IsTokenExpired(api.appToken, now)
       THEN api' = [api EXCEPT !.requests = @ + 1,
                               !.calls = Append(@, SendApiRequest(call, api.appToken))]
       ELSE api' = [api EXCEPT !.requests = @ + 1,
                               !.calls = Append(@, [call EXCEPT !.pc = "fetch",
                                                                !.requests = 1])]
    /\ UNCHANGED <<pkceStore, callbacks, startup, notifierVars, tokenVars>>

\* fetchAppAccessToken after its fetch: a 2xx is stored with Date.now(),
\* anything else is thrown
ApiFetchSettles(c) ==
    /\ c \in 1..Len(api.calls)
    /\ api.calls[c].pc = "fetch"
    /\ \E answer \in TokenAnswers :
         IF answer = "ok"
         THEN \E e \in IssuedExpiresIn :
                api' = [api EXCEPT !.appToken = Token(api.issued + 1, 0, e, now),
                                   !.issued = @ + 1,
                                   !.calls[c].outcome = "ok",
                                   !.calls[c].pc = "resume"]
         ELSE api' = [api EXCEPT !.calls[c] =
                          Caught(api.variant, TokenFetchFailed(@, answer))]
    /\ UNCHANGED <<pkceStore, callbacks, startup, notifierVars, tokenVars>>

\* getValidAccessToken returns the accessToken of the token now stored and
\* makeApiRequest sends the API request with it
ApiResume(c) ==
    /\ c \in 1..Len(api.calls)
    /\ api.calls[c].pc = "resume"
    /\ api' = [api EXCEPT !.requests = @ + 1,
                          !.calls[c] = SendApiRequest(@, api.appToken)]
    /\ UNCHANGED <<pkceStore, callbacks, startup, notifierVars, tokenVars>>

ApiRequestSettles(c) ==
    /\ c \in 1..Len(api.calls)
    /\ api.calls[c].pc = "api"
    /\ \E answer \in ApiAnswers :
         api' = [api EXCEPT !.calls[c] = Caught(api.variant, ApiSettled(@, answer))]
    /\ UNCHANGED <<pkceStore, callbacks, startup, notifierVars, tokenVars>>

ApiNext ==
    \/ FiledNext
    \/ \E method \in ApiMethods(api.variant) : ApiMakeApiRequest(method)
    \/ \E c \in 1..Len(api.calls) : ApiFetchSettles(c)
    \/ \E c \in 1..Len(api.calls) : ApiResume(c)
    \/ \E c \in 1..Len(api.calls) : ApiRequestSettles(c)

ApiSpec == ApiInit /\ [][ApiNext]_vars

(***************************************************************************)
(* The dashboard's OAuth routes of server.ts, GET /login/kick and          *)
(* GET /callback/kick, over the Kick client of the OAuth variant.          *)
(*                                                                         *)
(* pkceStore maps a state to its code verifier; a state is named by the    *)
(* number of the login that issued it, and so is its verifier.  `timers`   *)
(* are the states whose setTimeout has not fired yet; `expired` remembers  *)
(* the states whose entry the timer removed.                               *)
(***************************************************************************)
\* GET /login/kick requests in one behaviour
MaxLogins == 1

\* GET /callback/kick requests in one behaviour
MaxCallbacks == 2

\* KICK_AUTH_ALLOWLIST, split at commas
Allowlist == {"7"}

\* what the users endpoint may name as data[0].user_id
AuthenticatedUserIds == {Undefined, "7", "8"}

\* `!userId || !allowlist.includes(userId.toString())`
Denied(userId) == userId = Undefined \/ userId \notin Allowlist

\* OAUTH_DASHBOARD_SECRET: unset, or set
DashboardSecrets == {Undefined, "s"}

\* the `secret` query parameter of a login request: missing, the configured
\* secret, or another text
QuerySecrets == {Undefined, "s", "x"}

\* a check that only compares
Unauthorized_ComparesOnly(secret, configured) == secret # configured

\* `!secret || secret !== process.env.OAUTH_DASHBOARD_SECRET`
Unauthorized(secret, configured) == secret = Undefined \/ secret # configured

DashInit ==
    /\ env = ConfiguredEnv
    /\ twitch = [instance |-> 0, instancePromise |-> 0, inits |-> <<>>]
    /\ kick = [instance |-> 0, instancePromise |-> 0, inits |-> <<>>]
    /\ reqs = <<>>
    /\ runs = <<>>
    /\ callers = <<>>
    /\ verifyCall = NoVerifyCall
    /\ hist = <<>>
    /\ now = 0
    /\ expiry = NoExpiryCall
    /\ filed = NoFileClient
    /\ api = NoApiClient
    /\ \E configured \in DashboardSecrets :
         pkceStore = [entries |-> {}, timers |-> {}, expired |-> {}, logins |-> <<>>,
                      dashboardSecret |-> configured]
    /\ callbacks = <<>>
    /\ startup = NoStartup
    /\ \E stored \in {NoToken, Token(1, 1, 61, 0)} :
         oauth = [userToken |-> stored, file |-> stored,
                  issued |-> Len(stored), used |-> {}, calls |-> <<>>]

\* lines 123-140: 401 on a missing or wrong secret; else generateAuthUrl
\* draws a fresh state and verifier, the pair is stored and its timer set
LoginKick ==
    /\ Len(pkceStore.logins) < MaxLogins
    /\ \E secret \in QuerySecrets :
         LET state == Len(pkceStore.logins) + 1 IN
         pkceStore' = IF Unauthorized(secret, pkceStore.dashboardSecret)
                      THEN [pkceStore EXCEPT
                              !.logins = Append(@, [status |-> 401, secret |-> secret])]
                      ELSE [pkceStore EXCEPT
                              !.entries = @ \cup {state},
                              !.timers = @ \cup {state},
                              !.logins = Append(@, [status |-> 302, secret |-> secret])]
    /\ UNCHANGED <<api, callbacks, startup, notifierVars, tokenVars>>

\* a timer callback that removes nothing
Expire_KeepsEntry(store, state) ==
    [store EXCEPT !.timers = @ \ {state},
                  !.expired = IF state \in store.entries THEN @ \cup {state} ELSE @]

\* `() => pkceStore.delete(state)`
Expire(store, state) ==
    [store EXCEPT !.entries = @ \ {state}, !.timers = @ \ {state},
                  !.expired = IF state \in store.entries THEN @ \cup {state} ELSE @]

\* the timer of a state fires, ten minutes after its login
PkceTimerFires ==
    /\ \E state \in pkceStore.timers : pkceStore' = Expire(pkceStore, state)
    /\ UNCHANGED <<api, callbacks, startup, notifierVars, tokenVars>>

\* a callback that reads the verifier and leaves the entry
Consume_KeepsEntry(store, state) == store

\* `pkceStore.delete(state)`
Consume(store, state) == [store EXCEPT !.entries = @ \ {state}]

NewCallback(state, error) ==
    [state |-> state, error |-> error, pc |-> "start", status |-> 0, verifier |-> 0,
     token |-> 0, userId |-> "unread", allowed |-> FALSE, revoke |-> "none"]

\* the `state` a callback may carry: none or an unknown one (0), or one that a
\* login may issue
CallbackStates == 0..MaxLogins

\* lines 142-162: 400 on an error parameter or when pkceStore has no verifier
\* for the state; else the entry is deleted and exchangeCode sends its request
CallbackKick ==
    /\ Len(callbacks) < MaxCallbacks
    /\ \E state \in CallbackStates, error \in BOOLEAN :
         LET cb == NewCallback(state, error) IN
         IF error \/ state \notin pkceStore.entries
         THEN /\ callbacks' = Append(callbacks, [cb EXCEPT !.status = 400, !.pc = "done"])
              /\ pkceStore' = pkceStore
         ELSE /\ callbacks' = Append(callbacks, [cb EXCEPT !.verifier = state,
                                                           !.pc = "exchange"])
              /\ pkceStore' = Consume(pkceStore, state)
    /\ UNCHANGED <<api, startup, notifierVars, tokenVars>>

\* exchangeCode after its fetch: anything but a 2xx is thrown and answered
\* 500; a 2xx is saved and the users request goes out with the new token
CallbackExchangeDone(k) ==
    /\ k \in 1..Len(callbacks)
    /\ callbacks[k].pc = "exchange"
    /\ \E ok \in BOOLEAN :
         IF ok
         THEN /\ oauth' = SaveToken(oauth, oauth.issued + 1, 61, now)
              /\ callbacks' = [callbacks EXCEPT ![k].token = oauth.issued + 1,
                                                ![k].pc = "users"]
         ELSE /\ oauth' = oauth
              /\ callbacks' = [callbacks EXCEPT ![k].status = 500, ![k].pc = "done"]
    /\ UNCHANGED <<api, pkceStore, startup, notifierVars, now, expiry, filed>>

\* lines 165-181 and revokeToken up to its fetch: a failed users request is
\* answered 500 from the catch; a user on the allowlist is answered 200; any
\* other is denied: revokeToken returns at once when no token is stored, else
\* it sends the revoke request
CallbackUsersDone(k) ==
    /\ k \in 1..Len(callbacks)
    /\ callbacks[k].pc = "users"
    /\ \/ /\ callbacks' = [callbacks EXCEPT ![k].status = 500, ![k].pc = "done"]
       \/ \E userId \in AuthenticatedUserIds :
            callbacks' = [callbacks EXCEPT
               ![k].userId = userId,
               ![k].allowed = ~Denied(userId),
               ![k].status = IF ~Denied(userId) THEN 200
                             ELSE IF oauth.userToken = NoToken THEN 403 ELSE 0,
               ![k].revoke = IF ~Denied(userId) THEN "none"
                             ELSE IF oauth.userToken = NoToken THEN "norequest" ELSE "sent",
               ![k].pc = IF Denied(userId) /\ oauth.userToken # NoToken
                         THEN "revoke" ELSE "done"]
    /\ UNCHANGED <<api, pkceStore, startup, notifierVars, tokenVars>>

\* what the revoke request may come to
RevokeAnswers == {"ok", "non2xx", "thrown"}

\* a revokeToken that clears the token only when the request went through
RevokeSettled_OnlyOnSuccess(o, answer) == IF answer = "ok" THEN ClearToken(o) ELSE o

\* revokeToken after its fetch: the answer's status is not looked at, a
\* thrown fetch is caught and logged, and `finally` runs clearToken
RevokeSettled(o, answer) ==
    CASE answer = "thrown" -> ClearToken(o)
      [] OTHER -> ClearToken(o)

\* revokeToken after its fetch, whatever it came to: clearToken, then 403
CallbackRevokeDone(k) ==
    /\ k \in 1..Len(callbacks)
    /\ callbacks[k].pc = "revoke"
    /\ \E answer \in RevokeAnswers :
         /\ oauth' = RevokeSettled(oauth, answer)
         /\ callbacks' = [callbacks EXCEPT ![k].status = 403, ![k].pc = "done",
                                           ![k].revoke = answer]
    /\ UNCHANGED <<api, pkceStore, startup, notifierVars, now, expiry, filed>>

DashNext ==
    \/ LoginKick
    \/ PkceTimerFires
    \/ CallbackKick
    \/ \E k \in 1..Len(callbacks) : CallbackExchangeDone(k)
    \/ \E k \in 1..Len(callbacks) : CallbackUsersDone(k)
    \/ \E k \in 1..Len(callbacks) : CallbackRevokeDone(k)

DashSpec == DashInit /\ [][DashNext]_vars

(***************************************************************************)
(* The subscription loops of the startup script (index.ts), which run at   *)
(* the module's top level: first the Twitch channels of channels.json,     *)
(* then the Kick channels.  A rejection that reaches the top level ends    *)
(* the process.                                                            *)
(***************************************************************************)
\* channels per platform in channels.json
MaxChannels == 2

\* the platform of the i-th channel in loop order
ChannelPlatform(i) == IF i <= MaxChannels THEN "twitch" ELSE "kick"

\* the clients exist, old subscriptions are deleted, channels.json is read and
\* the lookup of the first channel is under way
StartupInit ==
    /\ env = ConfiguredEnv
    /\ twitch = [instance |-> 0, instancePromise |-> 0, inits |-> <<>>]
    /\ kick = [instance |-> 0, instancePromise |-> 0, inits |-> <<>>]
    /\ reqs = <<>>
    /\ runs = <<>>
    /\ callers = <<>>
    /\ verifyCall = NoVerifyCall
    /\ hist = <<>>
    /\ now = 0
    /\ expiry = NoExpiryCall
    /\ oauth = NoOAuthClient
    /\ filed = NoFileClient
    /\ api = NoApiClient
    /\ pkceStore = NoPkce
    /\ callbacks = <<>>
    /\ startup = [pc |-> "lookup", channel |-> 1, outcomes |-> <<>>]

\* an awaited call in the loop body rejected: nothing catches it
Rejection(st, outcome) ==
    [st EXCEPT !.outcomes = Append(@, outcome), !.pc = "crashed"]

\* `continue`, or the end of the loop body: on to the next channel's lookup
NextChannel(st, outcome) ==
    [st EXCEPT !.outcomes = Append(@, outcome),
               !.channel = @ + 1,
               !.pc = IF st.channel = 2 * MaxChannels THEN "done" ELSE "lookup"]

\* what the lookup of a channel may come to
LookupAnswers == {"found", "none", "thrown"}

\* getUserFromName (Twitch) or getChannel (Kick) settles: without a user the
\* loop logs and continues; getChannel catches, warns and returns null where
\* getUserFromName throws; with a user the creation is awaited
StartupLookupDone ==
    /\ startup.pc = "lookup"
    /\ \E answer \in LookupAnswers :
         startup' =
           IF answer = "found" THEN [startup EXCEPT !.pc = "create"]
           ELSE IF answer = "thrown" /\ ChannelPlatform(startup.channel) = "twitch"
           THEN Rejection(startup, "lookupFailed")
           ELSE NextChannel(startup, IF answer = "thrown" THEN "lookupCaught" ELSE "notFound")
    /\ UNCHANGED <<api, pkceStore, callbacks, notifierVars, tokenVars>>

\* what the creation of a subscription may come to; createKickSubscription
\* returns null without a request when the client is not authenticated
CreateAnswers(platform) ==
    IF platform = "twitch" THEN {"created", "createFailed"}
    ELSE {"created", "createFailed", "unauthenticated"}

\* createOnlineSubscription / createKickSubscription settles
StartupCreateDone ==
    /\ startup.pc = "create"
    /\ \E answer \in CreateAnswers(ChannelPlatform(startup.channel)) :
         startup' = IF answer = "createFailed" THEN Rejection(startup, answer)
                    ELSE NextChannel(startup, answer)
    /\ UNCHANGED <<api, pkceStore, callbacks, notifierVars, tokenVars>>

StartupNext ==
    \/ StartupLookupDone
    \/ StartupCreateDone

StartupSpec == StartupInit /\ [][StartupNext]_vars

(***************************************************************************)
(* A failed first initialization of the Twitch client: callers of          *)
(* getInstance (startup, the subscription helpers) next to the requests of *)
(* POST /events/twitch.                                                    *)
(***************************************************************************)
FailedInitNext ==
    \/ CallGetInstance("twitch")
    \/ \E i \in 1..Len(twitch.inits) : TwitchInitFetchDone(i)
    \/ \E c \in 1..Len(callers) : CallerResume(c)
    \/ TwitchPost
    \/ \E r \in 1..Len(reqs) : TwitchVerify(r) \/ TwitchDispatch(r)

FailedInitSpec == Init /\ [][FailedInitNext]_vars

(***************************************************************************)
(* The Kick subscription helpers of functions/auth/kick/subscriptions.ts   *)
(* over the Kick app-token client, next to the client's other callers.     *)
(* A helper's call is recorded like a call of makeApiRequest, under the    *)
(* helper's name.                                                          *)
(***************************************************************************)
KickHelpers == {"createKickOnlineSubscription", "listKickSubscriptions",
                "deleteKickSubscription", "deleteAllKickSubscriptions"}

\* `get isAuthenticated`: a token is held and has not expired
IsAuthenticated(token, t) == token # NoToken /\ ~IsTokenExpired(token, t)

\* how many subscriptions the list of deleteAllKickSubscriptions may name
ListedSubscriptions == {0, 1}

HelperInit ==
    /\ env = ConfiguredEnv
    /\ twitch = [instance |-> 0, instancePromise |-> 0, inits |-> <<>>]
    /\ kick = [instance |-> 0, instancePromise |-> 0, inits |-> <<>>]
    /\ reqs = <<>>
    /\ runs = <<>>
    /\ callers = <<>>
    /\ verifyCall = NoVerifyCall
    /\ hist = <<>>
    /\ now = 0
    /\ expiry = NoExpiryCall
    /\ oauth = NoOAuthClient
    /\ filed = NoFileClient
    /\ api \in {c \in ApiClients : c.variant = "kick"}
    /\ pkceStore = NoPkce
    /\ callbacks = <<>>
    /\ startup = NoStartup

\* a helper from its call to its first await on the network: getClient has
\* the client; without isAuthenticated the helper warns and returns its
\* empty value; else the client's method calls makeApiRequest, which finds
\* the token it was just found to hold and sends the API request
KickHelper(helper) ==
    /\ api.variant = "kick"
    /\ helper \in KickHelpers
    /\ Len(api.calls) < MaxTokenCalls
    /\ LET call == [NewTokenCall("app", api.appToken, now, 0)
                      EXCEPT !.method = helper, !.foundToken = 0] IN
       IF ~IsAuthenticated(api.appToken, now)
       THEN api' = [api EXCEPT !.calls = Append(@, [call EXCEPT !.pc = "returned",
                                                               !.outcome = "notAuthenticated"])]
       ELSE api' = [api EXCEPT !.requests = @ + 1,
                               !.calls = Append(@, [SendApiRequest(call, api.appToken) EXCEPT
                                   !.outcome = IF helper = "deleteAllKickSubscriptions"
                                               THEN "listing" ELSE "none"])]
    /\ UNCHANGED <<pkceStore, callbacks, startup, notifierVars, tokenVars>>

\* deleteAllKickSubscriptions after its list has returned: with no
\* subscription it returns 0; with one, deleteEventSubSubscription calls
\* makeApiRequest, which sends the request or first fetches a token if the
\* one held has expired meanwhile
KickDeleteAllGoesOn(c) ==
    /\ c \in 1..Len(api.calls)
    /\ api.calls[c].method = "deleteAllKickSubscriptions"
    /\ api.calls[c].pc = "returned"
    /\ api.calls[c].outcome = "listing"
    /\ \E subs \in ListedSubscriptions :
         IF subs = 0
         THEN api' = [api EXCEPT !.calls[c].outcome = "deleted"]
         ELSE IF ~IsTokenExpired(api.appToken, now)
         THEN api' = [api EXCEPT !.requests = @ + 1,
                                 !.calls[c] = [SendApiRequest(@, api.appToken) EXCEPT
                                                 !.apiRequests = 2, !.outcome = "deleted"]]
         ELSE api' = [api EXCEPT !.requests = @ + 1,
                                 !.calls[c].pc = "fetch",
                                 !.calls[c].requests = 1]
    /\ UNCHANGED <<pkceStore, callbacks, startup, notifierVars, tokenVars>>

HelperNext ==
    \/ Tick
    \/ \E helper \in KickHelpers : KickHelper(helper)
    \/ \E c \in 1..Len(api.calls) : KickDeleteAllGoesOn(c)
    \/ \E method \in ApiMethods(api.variant) : ApiMakeApiRequest(method)
    \/ \E c \in 1..Len(api.calls) : ApiFetchSettles(c)
    \/ \E c \in 1..Len(api.calls) : ApiResume(c)
    \/ \E c \in 1..Len(api.calls) : ApiRequestSettles(c)

HelperSpec == HelperInit /\ [][HelperNext]_vars

(***************************************************************************)
(* revokeToken of the Kick OAuth client, called next to the client's       *)
(* getValidAccessToken calls.  A revokeToken call is recorded among the    *)
(* client's calls under its own name.                                      *)
(***************************************************************************)
\* revokeToken up to its fetch: it returns at once when no token is held
RevokeToken ==
    /\ Len(oauth.calls) < MaxTokenCalls
    /\ LET call == [NewTokenCall("user", oauth.userToken, now, oauth.issued)
                      EXCEPT !.method = "revokeToken"] IN
       oauth' = [oauth EXCEPT !.calls = Append(@,
           IF oauth.userToken = NoToken
           THEN [call EXCEPT !.pc = "returned", !.outcome = "norequest"]
           ELSE [call EXCEPT !.pc = "revoke", !.requests = 1])]
    /\ UNCHANGED <<adminVars, notifierVars, now, expiry, filed>>

\* the revoke request has settled and revokeToken returns
RevokeDone(c) ==
    /\ c \in 1..Len(oauth.calls)
    /\ oauth.calls[c].pc = "revoke"
    /\ \E answer \in RevokeAnswers :
         oauth' = [RevokeSettled(oauth, answer) EXCEPT !.calls[c].pc = "returned",
                                                       !.calls[c].outcome = answer]
    /\ UNCHANGED <<adminVars, notifierVars, now, expiry, filed>>

RevokeNext ==
    \/ Tick
    \/ OAuthGetValidAccessToken
    \/ RevokeToken
    \/ \E c \in 1..Len(oauth.calls) : OAuthRefreshSettles(c)
    \/ \E c \in 1..Len(oauth.calls) : OAuthResume(c)
    \/ \E c \in 1..Len(oauth.calls) : RevokeDone(c)

RevokeSpec == OAuthInit /\ [][RevokeNext]_vars

(***************************************************************************)
(* The same routes with the event loop's guarantee that a timer which is   *)
(* due fires: setTimeout callbacks run as long as the process does.        *)
(***************************************************************************)
DashLiveSpec == DashInit /\ [][DashNext]_vars /\ WF_vars(PkceTimerFires)

(***************************************************************************)
(* Startup outside development, from the deletion of the existing          *)
(* subscriptions on: deleteAllSubscriptions, deleteAllKickSubscriptions,   *)
(* channels.json, then the loops above.  A subscription is named by its    *)
(* platform and a number; the ones startup creates are numbered above the  *)
(* ones that were there.  `pending` are the delete requests in flight,     *)
(* `sent` every delete request made, `deleted` what the server removed,    *)
(* `failed` the platforms whose deletion step rejected.                    *)
(***************************************************************************)
\* subscriptions per platform left over from an earlier run
MaxSubs == 2

Sub(platform, n) == [platform |-> platform, n |-> n]

\* the subscriptions startup has created so far
Created(st) ==
    {Sub(ChannelPlatform(i), MaxSubs + i) :
       i \in {j \in 1..Len(st.outcomes) : st.outcomes[j] = "created"}}

\* what the platform's list endpoint answers with
ServerSubs(st, platform) ==
    {s \in (st.existing \ st.deleted) \cup Created(st) : s.platform = platform}

CleanupInit ==
    /\ env = ConfiguredEnv
    /\ twitch = [instance |-> 0, instancePromise |-> 0, inits |-> <<>>]
    /\ kick = [instance |-> 0, instancePromise |-> 0, inits |-> <<>>]
    /\ reqs = <<>>
    /\ runs = <<>>
    /\ callers = <<>>
    /\ verifyCall = NoVerifyCall
    /\ hist = <<>>
    /\ now = 0
    /\ expiry = NoExpiryCall
    /\ oauth = NoOAuthClient
    /\ filed = NoFileClient
    /\ api = NoApiClient
    /\ pkceStore = NoPkce
    /\ callbacks = <<>>
    /\ \E t \in 0..MaxSubs, k \in 0..MaxSubs :
         startup = [pc |-> "list", platform |-> "twitch", channel |-> 1, outcomes |-> <<>>,
                    existing |-> {Sub("twitch", n) : n \in 1..t}
                                 \cup {Sub("kick", n) : n \in 1..k},
                    pending |-> {}, sent |-> {}, deleted |-> {}, failed |-> {}]

\* a Promise.all that is fulfilled by the first of its promises
PromiseAll_First(remaining, ok) == IF ok THEN "fulfilled" ELSE "rejected"

\* `await Promise.all(subs.map(delete))` as one of its promises settles:
\* rejected by the first rejection, fulfilled when none is left
PromiseAll(remaining, ok) ==
    IF ~ok THEN "rejected" ELSE IF remaining = {} THEN "fulfilled" ELSE "pending"

\* the deletion step of the platform is over, by return or by the catch
\* around it.  After Twitch's comes Kick's, which returns 0 at once when
\* the client is not authenticated and else lists; after Kick's,
\* channels.json is read, or the process exits without it, and the first
\* lookup of the loops is sent
StepsAfter(st) ==
    IF st.platform = "twitch"
    THEN {[st EXCEPT !.platform = "kick", !.pc = "list"],
          [st EXCEPT !.platform = "none", !.pc = "lookup"],
          [st EXCEPT !.platform = "none", !.pc = "exited"]}
    ELSE {[st EXCEPT !.platform = "none", !.pc = "lookup"],
          [st EXCEPT !.platform = "none", !.pc = "exited"]}

\* listEventSubSubscriptions of a deletion step settles: a failure rejects
\* the step; an empty list ends it; else one delete request per subscription
\* goes out and the step awaits them all
CleanupListDone ==
    /\ startup.pc = "list"
    /\ \E ok \in BOOLEAN :
         LET subs == ServerSubs(startup, startup.platform) IN
         IF ~ok
         THEN startup' \in StepsAfter([startup EXCEPT !.failed = @ \cup {startup.platform}])
         ELSE IF subs = {}
         THEN startup' \in StepsAfter(startup)
         ELSE startup' = [startup EXCEPT !.pending = @ \cup subs, !.sent = @ \cup subs,
                                         !.pc = "deleting"]
    /\ UNCHANGED <<api, pkceStore, callbacks, notifierVars, tokenVars>>

\* a delete request settles; if its step is still awaiting it, Promise.all
\* may settle with it
CleanupDeleteSettles ==
    /\ "pending" \in DOMAIN startup
    /\ \E sub \in startup.pending, ok \in BOOLEAN :
         LET st == [startup EXCEPT !.pending = @ \ {sub},
                                   !.deleted = IF ok THEN @ \cup {sub} ELSE @]
             all == PromiseAll({s \in st.pending : s.platform = sub.platform}, ok)
         IN  IF startup.pc = "deleting" /\ startup.platform = sub.platform /\ all # "pending"
             THEN startup' \in StepsAfter(IF all = "rejected"
                                          THEN [st EXCEPT !.failed = @ \cup {sub.platform}]
                                          ELSE st)
             ELSE startup' = st
    /\ UNCHANGED <<api, pkceStore, callbacks, notifierVars, tokenVars>>

CleanupNext ==
    \/ CleanupListDone
    \/ CleanupDeleteSettles
    \/ StartupLookupDone
    \/ StartupCreateDone

CleanupSpec == CleanupInit /\ [][CleanupNext]_vars

(***************************************************************************)
(* TwitchApiClient.create() of the file variant, and the client it returns *)
(* under API calls.  `create` is where create() stands: "start", "fetch"   *)
(* (the app token request is out), "created", or the reason it rejected.   *)
(***************************************************************************)
\* a token file whose text JSON.parse refuses
CorruptFile == Token(0, 0, 0, 0)

\* what user_token.json and app_token.json may hold when create() is called:
\* nothing (no file), a token, or text that is no JSON
CreateUserFiles == {NoToken, Token(1, 1, 61, 0), CorruptFile}

CreateAppFiles == {NoToken, CorruptFile} \cup {Token(2, 0, e, 0) : e \in TwitchExpiresIn}

CreateInit ==
    /\ env = ConfiguredEnv
    /\ twitch = [instance |-> 0, instancePromise |-> 0, inits |-> <<>>]
    /\ kick = [instance |-> 0, instancePromise |-> 0, inits |-> <<>>]
    /\ reqs = <<>>
    /\ runs = <<>>
    /\ callers = <<>>
    /\ verifyCall = NoVerifyCall
    /\ hist = <<>>
    /\ now = 0
    /\ expiry = NoExpiryCall
    /\ oauth = NoOAuthClient
    /\ AdminIdle
    /\ \E userFile \in CreateUserFiles, appFile \in CreateAppFiles :
         filed = [userTokens |-> NoToken, userFile |-> userFile,
                  appTokens |-> NoToken, appFile |-> appFile,
                  issued |-> 2, requests |-> 0, calls |-> <<>>, create |-> "start"]

\* an initializeTokens that lets the failed read of user_token.json through
LoadUserTokens_Throws(file) == IF file \in {NoToken, CorruptFile} THEN CorruptFile ELSE file

\* lines 62-67: the file's token, or null when the read or the parse failed
LoadUserTokens(file) == IF file \in {NoToken, CorruptFile} THEN NoToken ELSE file

\* create() up to its first await on the network, or to its end: the user
\* token is loaded if it can be; without app_token.json the app token is
\* requested; else the file is read, and a parse error rejects create()
FiledCreate ==
    /\ "create" \in DOMAIN filed
    /\ filed.create = "start"
    /\ LET user == LoadUserTokens(filed.userFile) IN
       filed' = IF user = CorruptFile
                THEN [filed EXCEPT !.create = "userFileFailed"]
                ELSE IF filed.appFile = NoToken
                THEN [filed EXCEPT !.userTokens = user, !.requests = @ + 1, !.create = "fetch"]
                ELSE IF filed.appFile = CorruptFile
                THEN [filed EXCEPT !.userTokens = user, !.create = "appFileFailed"]
                ELSE [filed EXCEPT !.userTokens = user, !.appTokens = filed.appFile,
                                   !.create = "created"]
    /\ UNCHANGED <<adminVars, notifierVars, now, expiry, oauth>>

\* fetchAppAccessToken of initializeTokens settles: anything but a 2xx
\* rejects create(); a 2xx is written by writeTokens and read back, and a
\* failed write rejects create()
FiledCreateFetchSettles ==
    /\ "create" \in DOMAIN filed
    /\ filed.create = "fetch"
    /\ \E answer \in TokenAnswers, written \in BOOLEAN, e \in TwitchExpiresIn :
         LET tokens == Token(filed.issued + 1, 0, e, now) IN
         filed' = IF answer # "ok" THEN [filed EXCEPT !.create = "fetchFailed"]
                  ELSE IF ~written
                  THEN [WriteTokens(filed, "app", tokens) EXCEPT
                          !.issued = @ + 1, !.create = "writeFailed"]
                  ELSE [WriteFile(WriteTokens(filed, "app", tokens), "app", tokens) EXCEPT
                          !.issued = @ + 1, !.create = "created"]
    /\ UNCHANGED <<adminVars, notifierVars, now, expiry, oauth>>

\* the client is handed out only when create() has resolved
CreateNext ==
    \/ FiledCreate
    \/ FiledCreateFetchSettles
    \/ /\ "create" \in DOMAIN filed
       /\ filed.create = "created"
       /\ FiledNext

CreateSpec == CreateInit /\ [][CreateNext]_vars

(***************************************************************************)
(* Properties.                                                             *)
(***************************************************************************)
RunsOf(r) == {p \in 1..Len(runs) : runs[p].req = r}

Finished(r) == reqs[r].pc \in {"done", "threw"}

TwitchReqs == {r \in 1..Len(reqs) : reqs[r].platform = "twitch"}

KickReqs == {r \in 1..Len(reqs) : reqs[r].platform = "kick"}

\* the request came without its message-id, timestamp or signature header
HeaderAbsent(r) ==
    reqs[r].messageId = <<>> \/ reqs[r].timestamp = <<>> \/ ~reqs[r].hasSignature

CallersOf(platform) == {c \in 1..Len(callers) : callers[c].platform = platform}

\* C1: for either client class, the initializer of getInstance runs once at
\* most, and once as soon as anyone has called; every caller whose await
\* ended with a client holds the same client, the published instance.
C1_SingletonIdempotent ==
    \A platform \in Platforms :
      /\ Len(Statics(platform).inits) <= 1
      /\ CallersOf(platform) # {} => Len(Statics(platform).inits) = 1
      /\ \A c \in CallersOf(platform) :
           callers[c].pc = "resolved" =>
             /\ callers[c].client = Statics(platform).instance
             /\ \A d \in CallersOf(platform) :
                  callers[d].pc = "resolved" => callers[d].client = callers[c].client

\* two calls made while the initialization was unfinished, both resolved
C1_Witness ==
    \E c, d \in 1..Len(callers) :
      /\ c # d
      /\ callers[c].platform = callers[d].platform
      /\ callers[c].pending /\ callers[d].pending
      /\ callers[c].pc = "resolved" /\ callers[d].pc = "resolved"

\* C2: on either endpoint, a request whose body was parsed, whose message
\* type was acted on, that was answered 200 or that started a pipeline run
\* is one for which the signature verifier returned true.
C2_VerifiedBeforeInterpreted ==
    \A r \in 1..Len(reqs) :
      (reqs[r].parsed \/ reqs[r].type # "unread" \/ reqs[r].status = 200 \/ RunsOf(r) # {})
        => reqs[r].isValid = "true"

\* a verified request whose body was parsed and that started a run
C2_Witness ==
    \E r \in 1..Len(reqs) : reqs[r].parsed /\ reqs[r].isValid = "true" /\ RunsOf(r) # {}

\* C3: whenever a pipeline run exists, whatever it has done so far, the
\* request that started it has been answered 200: the answer precedes the
\* first lookup and waits for no step of the run.
C3_RespondedBeforePipeline ==
    \A p \in 1..Len(runs) :
      /\ reqs[runs[p].req].status = 200
      /\ reqs[runs[p].req].pc = "done"

\* a run whose first lookup is out
C3_Witness ==
    \E p \in 1..Len(runs) :
      runs[p].looked /\ runs[p].attempt = 1 /\ runs[p].pc = "lookups"
      /\ reqs[runs[p].req].status = 200

\* the signature the claim names: "sha256=" and the hex HMAC of id, timestamp, body
ExactSignature(call) ==
    Sha256Prefix
      \o HexDigest(HmacSha256(call.secret, call.messageId \o call.timestamp \o call.body))

DiffersInOnePosition(a, b) ==
    /\ Len(a) = Len(b)
    /\ Cardinality({i \in 1..Len(a) : a[i] # b[i]}) = 1

\* C4: verifyTwitchSignature returns true exactly for the signature
\* "sha256=" + hex(HMAC(secret, id || timestamp || body)); a signature that
\* differs from it in one position is not accepted.
C4_TrueIffExactSignature ==
    verifyCall.result # "none" =>
      /\ verifyCall.result = "true" <=> verifyCall.providedSignature = ExactSignature(verifyCall)
      /\ DiffersInOnePosition(verifyCall.providedSignature, ExactSignature(verifyCall))
           => verifyCall.result # "true"

\* the exact signature accepted where the id-timestamp order matters
C4_Witness ==
    /\ verifyCall.result = "true"
    /\ verifyCall.messageId # verifyCall.timestamp
    /\ HmacSha256(verifyCall.secret,
                  verifyCall.timestamp \o verifyCall.messageId \o verifyCall.body)
         # HmacSha256(verifyCall.secret,
                      verifyCall.messageId \o verifyCall.timestamp \o verifyCall.body)

\* C5: a POST /events/twitch with the three headers whose signature does not
\* match is answered 403, and its verification yields a boolean.
C5_NonMatchingAnswered403 ==
    \A r \in TwitchReqs :
      (Finished(r) /\ reqs[r].isValid \notin {"none", "true"})
        => reqs[r].isValid = "false" /\ reqs[r].status = 403

KnownTwitchTypes == {"webhook_callback_verification", "revocation", "notification"}

Verified(r) == reqs[r].isValid = "true" /\ reqs[r].type # "unread"

\* C7: a verified notification whose payload has an event object is
\* answered 200 and starts exactly one run, sendMessage('twitch', id) with
\* the payload's event.broadcaster_user_id; no other Twitch request, of
\* another type or turned away, starts a run.
C7_NotificationStartsOneRun ==
    \A r \in TwitchReqs :
      /\ (Verified(r) /\ reqs[r].type = "notification" /\ JsonParse(reqs[r].body).event)
           => /\ reqs[r].status = 200
              /\ Cardinality(RunsOf(r)) = 1
              /\ \A p \in RunsOf(r) :
                   /\ runs[p].platform = "twitch"
                   /\ runs[p].userId = JsonParse(reqs[r].body).event_broadcaster_user_id
      /\ ~(Verified(r) /\ reqs[r].type = "notification") => RunsOf(r) = {}

C7_Witness ==
    \E r \in TwitchReqs :
      /\ Verified(r) /\ reqs[r].type = "notification"
      /\ \E p \in RunsOf(r) : runs[p].userId = "123"

\* C8: a verified webhook_callback_verification message whose body is JSON
\* is answered with status 200 and the payload's challenge as the body, and
\* starts no run.
C8_ChallengeEchoed ==
    \A r \in TwitchReqs :
      (Verified(r) /\ reqs[r].type = "webhook_callback_verification"
         /\ JsonParse(reqs[r].body).ok)
        => /\ reqs[r].status = 200
           /\ reqs[r].sent = IF JsonParse(reqs[r].body).challenge = Undefined THEN ""
                             ELSE JsonParse(reqs[r].body).challenge
           /\ RunsOf(r) = {}

C8_Witness ==
    \E r \in TwitchReqs :
      reqs[r].type = "webhook_callback_verification" /\ reqs[r].status = 200
      /\ reqs[r].sent = "abc123"

\* C9: the step that handles a verified revocation message starts no run
\* and leaves both client classes, their clients' tokens and secrets
\* included, as they were; for a payload with a subscription object it
\* answers 200.
C9_RevocationChangesNothing ==
    [][\A r \in 1..Len(reqs) :
         (reqs[r].platform = "twitch" /\ reqs[r].pc = "awaitVerify"
            /\ reqs'[r].type = "revocation")
           => /\ runs' = runs
              /\ twitch' = twitch
              /\ kick' = kick
              /\ JsonParse(reqs[r].body).subscription
                   => reqs'[r].status = 200 /\ reqs'[r].pc = "done"]_vars

C9_Witness ==
    \E r \in TwitchReqs :
      Verified(r) /\ reqs[r].type = "revocation" /\ reqs[r].status = 200

\* C10 as stated: a verified request with an unrecognized or missing message
\* type is answered 200 and starts no run, and 400 is the answer only when
\* the message-id, timestamp or signature header is absent.
C10_MissingTypeAnswered200 ==
    \A r \in TwitchReqs :
      /\ (Verified(r) /\ reqs[r].type \notin KnownTwitchTypes /\ JsonParse(reqs[r].body).ok)
           => reqs[r].status = 200 /\ RunsOf(r) = {}
      /\ reqs[r].status = 400
           => HeaderAbsent(r)

\* C10 amended: a verified request with a JSON body starts no run unless
\* its type is notification; it is answered 200 when its message-type header
\* is there but unrecognized, and 400 when that header is missing or empty.
\* 400 is the answer only when the message-id, timestamp or signature header
\* is absent, or when the verified request has no message type.
C10_MissingTypeAnswered400 ==
    \A r \in TwitchReqs :
      /\ (Verified(r) /\ reqs[r].type \notin KnownTwitchTypes /\ JsonParse(reqs[r].body).ok)
           => /\ reqs[r].status = IF reqs[r].type = "" THEN 400 ELSE 200
              /\ RunsOf(r) = {}
      /\ reqs[r].status = 400
           => \/ HeaderAbsent(r)
              \/ Verified(r) /\ reqs[r].type = ""

\* a verified request of an unrecognized type, answered 200
C10_Witness ==
    \E r \in TwitchReqs :
      Verified(r) /\ reqs[r].type = "channel.update" /\ reqs[r].status = 200

\* C11: a verified POST /events/kick whose payload says is_live false starts
\* no pipeline run.
C11_OfflineStartsNoRun ==
    \A r \in KickReqs :
      (reqs[r].isValid = "true" /\ JsonParse(reqs[r].body).is_live = "false")
        => RunsOf(r) = {}

Observed == 1..Len(hist)

\* the attempts of invocation p that have ended in failure so far
Failed(p) == hist[p].notFound + hist[p].errors

\* C12: an invocation whose attempts before the k-th all reported not-live
\* or not-found and whose k-th attempt succeeded has returned the data of
\* that attempt after exactly k attempts, k <= retries, with k-1 delays of
\* `delay` ms each, and has issued no lookup beyond those of its k attempts.
C12_DataAfterKAttempts ==
    \A p \in Observed :
      (runs[p].result = "data" /\ hist[p].errors = 0)
        => /\ runs[p].attempt <= Retries
           /\ hist[p].notFound = runs[p].attempt - 1
           /\ hist[p].delays = runs[p].attempt - 1
           /\ hist[p].waited = (runs[p].attempt - 1) * Delay
           /\ hist[p].lookups = runs[p].attempt
           /\ Reports(runs[p].platform, hist[p].data.stream, hist[p].data.user) = "data"

\* five not-live attempts, then the sixth succeeded
C12_Witness ==
    \E p \in Observed :
      /\ runs[p].result = "data" /\ hist[p].errors = 0
      /\ runs[p].attempt = Retries
      /\ hist[p].waited = 5 * Delay

\* C13: no invocation makes more than `retries` attempts; one whose attempts
\* all failed, in any mix of not-live, not-found and thrown errors, has
\* returned null after exactly `retries` attempts, and has made no request
\* to Discord.
C13_NullAfterRetries ==
    \A p \in Observed :
      /\ Failed(p) <= Retries
      /\ Failed(p) = Retries
           => runs[p].pc \in {"delay", "done"} /\ runs[p].result # "data"
      /\ runs[p].result = "null"
           => /\ Failed(p) = Retries
              /\ hist[p].lookups <= Retries
              /\ runs[p].pc = "done"
              /\ runs[p].posts = 0
              /\ hist[p].post = "none"

\* an invocation that returned null after not-found answers and thrown errors
C13_Witness ==
    \E p \in Observed :
      runs[p].result = "null" /\ hist[p].notFound > 0 /\ hist[p].errors > 0

\* C14: an invocation starting or making its attempt a has waited `delay`
\* ms after each of the a-1 attempts before, however they failed.
C14_DelayBetweenAttempts ==
    \A p \in Observed :
      runs[p].pc \in {"awaitClient", "lookups"}
        => hist[p].waited = (runs[p].attempt - 1) * Delay

C16_OnePostNeverRejects ==
    \A p \in Observed :
      /\ runs[p].posts <= 1
      /\ runs[p].pc # "rejected"
      /\ hist[p].post # "none" => runs[p].pc = "done" /\ runs[p].posts = 1
      /\ (runs[p].result = "data" /\ env.discordWebhookUrl = "unset")
           => runs[p].pc = "done" /\ runs[p].posts = 0

\* the Discord request was thrown, the invocation is done
C16_Witness ==
    \E p \in Observed : hist[p].post = "thrown" /\ runs[p].pc = "done"

\* C17: isTokenExpired of a stored token is true exactly when the clock is
\* past obtainmentTimestamp + (expiresIn - 60) * 1000; at the threshold
\* itself the token is not expired.
C17_ExpiredIffPastThreshold ==
    (expiry.result # "none" /\ expiry.token # NoToken)
      => LET age == now - expiry.token[1].obtainmentTimestamp
             life == (expiry.token[1].expiresIn - 60) * 1000
         IN  /\ expiry.result = "true" <=> age > life
             /\ age = life => expiry.result = "false"

\* a call made exactly at the threshold of a token with a life time
C17_Witness ==
    /\ expiry.result = "false"
    /\ expiry.token # NoToken
    /\ expiry.token[1].expiresIn > 60
    /\ now = expiry.token[1].obtainmentTimestamp + (expiry.token[1].expiresIn - 60) * 1000

OAuthCalls == 1..Len(oauth.calls)

\* C18: a getValidAccessToken call that returned did not return the access
\* token of the token it found expired.
C18_NeverReturnsExpired ==
    \A c \in OAuthCalls :
      oauth.calls[c].pc = "returned"
        => ~(oauth.calls[c].found = "expired"
               /\ oauth.calls[c].returned = oauth.calls[c].foundToken)

\* C19 as stated: a call whose refresh request failed made one request,
\* cleared the token from memory and disk, and threw.
C19_FailedRefreshClears ==
    \A c \in OAuthCalls :
      (oauth.calls[c].outcome \in {"non2xx", "thrown"} /\ oauth.calls[c].pc # "resume")
        => /\ oauth.calls[c].requests = 1
           /\ oauth.calls[c].cleared
           /\ oauth.calls[c].pc = "threw"

\* C19 amended: a call whose refresh request was answered non-2xx made one
\* request and cleared the token from memory and disk; it throws, unless the
\* refresh of another call stored a new token before it resumed, which it
\* then returns.  A call whose refresh request was thrown made one request,
\* cleared nothing and threw.
C19_Non2xxClears ==
    \A c \in OAuthCalls :
      /\ oauth.calls[c].outcome = "non2xx"
           => /\ oauth.calls[c].requests = 1
              /\ oauth.calls[c].cleared
              /\ oauth.calls[c].pc \in {"resume", "threw", "returned"}
              /\ oauth.calls[c].pc = "returned"
                   => /\ oauth.calls[c].returned > oauth.calls[c].since
                      /\ \E d \in OAuthCalls \ {c} : oauth.calls[d].outcome = "ok"
      /\ oauth.calls[c].outcome = "thrown"
           => /\ oauth.calls[c].requests = 1
              /\ ~oauth.calls[c].cleared
              /\ oauth.calls[c].pc = "threw"
      /\ (oauth.calls[c].outcome = "non2xx" /\ oauth.calls[c].pc = "resume"
            /\ \A d \in OAuthCalls \ {c} : oauth.calls[d].outcome # "ok")
           => oauth.userToken = NoToken /\ oauth.file = <<>>

\* a call whose refresh was answered non-2xx: token gone, file gone, thrown
C19_Witness ==
    \E c \in OAuthCalls :
      /\ oauth.calls[c].outcome = "non2xx"
      /\ oauth.calls[c].pc = "threw"
      /\ oauth.userToken = NoToken /\ oauth.file = <<>>

\* the user token is absent, or expired with no refresh token stored
UserTokenUnusable ==
    \/ filed.userTokens = NoToken
    \/ /\ now - filed.userTokens[1].obtainmentTimestamp
            > (filed.userTokens[1].expiresIn - 60) * 1000
       /\ filed.userTokens[1].refreshToken = 0

\* C20: while the user token is absent, or expired without a refresh token,
\* every getValidAccessToken('user') call throws at once, no HTTP request is
\* made for it and both tokens stay as they are; and no step of the client
\* ends that condition.
C20_NoRefreshTokenThrows ==
    [][UserTokenUnusable
         => /\ UserTokenUnusable'
            /\ (Len(filed'.calls) > Len(filed.calls)
                  /\ filed'.calls[Len(filed'.calls)].type = "user")
                 => /\ filed'.calls[Len(filed'.calls)].pc = "threw"
                    /\ filed'.calls[Len(filed'.calls)].requests = 0
                    /\ filed'.requests = filed.requests
                    /\ filed'.userTokens = filed.userTokens
                    /\ filed'.appTokens = filed.appTokens
                    /\ filed'.userFile = filed.userFile
                    /\ filed'.appFile = filed.appFile]_vars

\* two user calls, the second after the first, both thrown without a request,
\* the stored token expired and without refresh token
C20_Witness ==
    /\ UserTokenUnusable
    /\ filed.userTokens # NoToken
    /\ Len(filed.calls) >= 2
    /\ \A c \in 1..2 : /\ filed.calls[c].type = "user"
                       /\ filed.calls[c].found = "expired"
                       /\ filed.calls[c].pc = "threw"
                       /\ filed.calls[c].requests = 0
    /\ filed.requests = 0

\* the API calls of whichever client is under calls
ApiCalls == api.calls \o filed.calls

FetchFailed(call) == call.outcome \in {"non2xx", "thrown"}

\* the step in which the token request of some call fails
FetchFails ==
    \E c \in 1..Len(ApiCalls) : ~FetchFailed(ApiCalls[c]) /\ FetchFailed(ApiCalls[c])'

C22_AdminRequestsUseAppToken ==
    \A c \in 1..Len(filed.calls) :
      (filed.calls[c].method \in {"listEventSubSubscriptions", "createEventSubSubscription",
                                  "deleteEventSubSubscription"}
         /\ filed.calls[c].apiRequests = 1)
        => filed.calls[c].sentWith = "app"

\* C23: the public key is fetched by at most one initializer, and a POST
\* /events/kick that carries the three headers and meets a client whose key
\* fetch yielded no key is answered 403 and starts no run.
C23_NoKeyAnswers403 ==
    /\ Cardinality({i \in 1..Len(kick.inits) : kick.inits[i].clientId}) <= 1
    /\ \A r \in KickReqs :
         (/\ ~HeaderAbsent(r)
          /\ reqs[r].pc # "awaitClient"
          /\ ~IsPublicKey(kick.inits[reqs[r].promise].publicKey))
           => /\ reqs[r].isValid = "false"
              /\ reqs[r].status = 403
              /\ RunsOf(r) = {}

\* the callbacks that carried `state` and went on to the code exchange
Proceeded(state) ==
    {k \in 1..Len(callbacks) : callbacks[k].state = state /\ callbacks[k].pc # "done"}
    \cup {k \in 1..Len(callbacks) : callbacks[k].state = state /\ callbacks[k].status # 400}

\* C24: of the callbacks carrying one state, at most one went on to the code
\* exchange, and each of the others was answered 400.
C24_StateConsumedOnce ==
    \A state \in 1..MaxLogins :
      /\ Cardinality(Proceeded(state)) <= 1
      /\ \A k \in 1..Len(callbacks) :
           (callbacks[k].state = state /\ k \notin Proceeded(state))
             => callbacks[k].status = 400 /\ callbacks[k].token = 0

\* two callbacks carried the state of the login, neither with an error
\* parameter: one exchanged the code, the other was answered 400
C24_Witness ==
    \E j, k \in 1..Len(callbacks) :
      /\ callbacks[j].state = 1 /\ callbacks[k].state = 1
      /\ ~callbacks[j].error /\ ~callbacks[k].error
      /\ callbacks[j].token # 0
      /\ callbacks[k].status = 400

\* C25: a callback that names a state whose entry the timer has removed is
\* answered 400 and exchanges no code.
C25_ExpiredStateRefused ==
    \A k \in 1..Len(callbacks) :
      callbacks[k].state \in pkceStore.expired
        => /\ callbacks[k].status = 400
           /\ callbacks[k].pc = "done"
           /\ callbacks[k].verifier = 0
           /\ callbacks[k].token = 0

\* the timer removed the entry of state 1, and a callback naming state 1
\* without an error parameter was answered 400
C25_Witness ==
    /\ 1 \in pkceStore.expired
    /\ \E k \in 1..Len(callbacks) :
         /\ callbacks[k].state = 1
         /\ ~callbacks[k].error
         /\ callbacks[k].status = 400

\* C26: when a callback has completed and the token it obtained is stored, in
\* memory or on disk, the user's id was checked and found on the allowlist.
C26_StoredTokenWasAllowed ==
    \A k \in 1..Len(callbacks) :
      (/\ callbacks[k].pc = "done"
       /\ callbacks[k].token # 0
       /\ \/ oauth.userToken # NoToken /\ oauth.userToken[1].accessToken = callbacks[k].token
          \/ oauth.file # NoToken /\ oauth.file[1].accessToken = callbacks[k].token)
        => callbacks[k].allowed

\* C27: no handler invocation ends in an exception, and a handler that has
\* ended has answered with 200, 400 or 403.
C27_EveryPostAnswered ==
    \A r \in 1..Len(reqs) :
      /\ reqs[r].pc # "threw"
      /\ reqs[r].pc = "done" => reqs[r].status \in {200, 400, 403}

\* C28: when the creation of a channel's subscription has failed, startup is
\* at a later channel or past the loops: the failure did not end the process.
C28_FailedCreationGoesOn ==
    \A i \in 1..Len(startup.outcomes) :
      startup.outcomes[i] = "createFailed"
        => /\ startup.pc # "crashed"
           /\ startup.channel > i

\* C29: when every call has completed and two of them had sent the refresh
\* request for the same expired token, the client holds a token newer than
\* that one.
C29_RefreshNotUndone ==
    (/\ \A c \in OAuthCalls : oauth.calls[c].pc \in {"returned", "threw"}
     /\ \E c, d \in OAuthCalls :
          /\ c # d
          /\ oauth.calls[c].requests = 1 /\ oauth.calls[d].requests = 1
          /\ oauth.calls[c].foundToken = oauth.calls[d].foundToken)
      => /\ oauth.userToken # NoToken
         /\ \A c \in OAuthCalls : oauth.userToken[1].accessToken > oauth.calls[c].foundToken
         /\ oauth.file = oauth.userToken

\* C30: when no token request and no file write is in flight, and no write
\* has failed, each token file holds the token held in memory for its kind.
C30_FileEqualsMemory ==
    (\A c \in 1..Len(filed.calls) :
       /\ filed.calls[c].pc \notin {"fetch", "writing"}
       /\ filed.calls[c].outcome # "writeFailed")
      => /\ filed.userFile = filed.userTokens
         /\ filed.appFile = filed.appTokens

\* C31: the Twitch initializer runs once at most; once it has failed no
\* instance is ever published, every getInstance call whose await has ended
\* was rejected, and no request on /events/twitch has reached the signature
\* verification: each one that passed the header check waits or has ended
\* in the rejection, unanswered.
C31_FailedInitIsFinal ==
    /\ Len(twitch.inits) <= 1
    /\ (twitch.inits # <<>> /\ twitch.inits[1].state = "rejected")
         => /\ twitch.instance = 0
            /\ \A c \in CallersOf("twitch") :
                 /\ callers[c].promise = 1
                 /\ callers[c].pc \in {"await", "rejected"}
            /\ \A r \in TwitchReqs :
                 ~HeaderAbsent(r)
                   => /\ reqs[r].promise = 1
                      /\ reqs[r].pc \in {"awaitClient", "threw"}
                      /\ reqs[r].isValid = "none"
                      /\ reqs[r].status = 0

\* the token request of the first initialization failed; a getInstance call
\* made after that was rejected, and a request with all its headers ended
\* in the rejection
C31_Witness ==
    /\ twitch.inits # <<>>
    /\ twitch.inits[1].state = "rejected"
    /\ twitch.inits[1].secret # <<>>
    /\ \E c \in CallersOf("twitch") : ~callers[c].pending /\ callers[c].pc = "rejected"
    /\ \E r \in TwitchReqs : ~HeaderAbsent(r) /\ reqs[r].pc = "threw"

\* the client was constructed with a stored user token: tokens are numbered
\* as they are issued, and the stored one counts as the first
StoredAtStart == oauth.issued = 1 + Cardinality({k \in 1..Len(callbacks) : callbacks[k].token # 0})

\* C32: when every callback so far has ended in 400, 403 or 500, a user token
\* that was stored before the first of them is still the token in memory
\* and in the token file.
C32_FailedCallbackKeepsToken ==
    (/\ StoredAtStart
     /\ \A k \in 1..Len(callbacks) :
          callbacks[k].pc = "done" /\ callbacks[k].status \in {400, 403, 500})
      => /\ oauth.userToken = Token(1, 1, 61, 0)
         /\ oauth.file = Token(1, 1, 61, 0)

\* C33: no initializer of the Kick client ends rejected and no await of
\* KickApiClient.getInstance() ends in a rejection; an initializer that has
\* ended has published its client, which every caller whose await ended holds.
C33_KickGetInstanceNeverRejects ==
    /\ \A i \in 1..Len(kick.inits) :
         /\ kick.inits[i].state # "rejected"
         /\ kick.inits[i].state = "resolved" => kick.instance = i
    /\ \A c \in CallersOf("kick") :
         /\ callers[c].pc # "rejected"
         /\ Settled(kick, callers[c].promise) /\ callers[c].pc # "await"
              => callers[c].pc = "resolved" /\ callers[c].client = kick.instance

\* a caller holds a client that has credentials but neither a public key nor
\* an app token: its public-key fetch threw or was refused and then the
\* token fetch failed; and the credential check alone has failed elsewhere
C33_Witness ==
    \E c \in CallersOf("kick") :
      /\ callers[c].pc = "resolved"
      /\ kick.inits[callers[c].client].clientId
      /\ kick.inits[callers[c].client].publicKey = <<>>
      /\ kick.inits[callers[c].client].appToken = NoToken

HelperCalls == {c \in 1..Len(api.calls) : api.calls[c].method \in KickHelpers}

\* C34: a helper called on a client that has credentials while its app token
\* was absent or expired does not return without a request: it has issued
\* the token request or the API request.
C34_HelperFetchesOnDemand ==
    \A c \in HelperCalls :
      (api.clientId /\ api.calls[c].found \in {"none", "expired"})
        => api.calls[c].requests + api.calls[c].apiRequests >= 1

\* C35: a Kick invocation that has returned data, or has sent a request to
\* Discord, returned it from an attempt whose channel lookup reported a live
\* stream.
C35_KickResultOnlyWhenLive ==
    \A p \in Observed :
      (runs[p].platform = "kick" /\ (runs[p].result = "data" \/ runs[p].posts > 0))
        => hist[p].data.stream = "live"

RevokeCalls == {c \in 1..Len(oauth.calls) : oauth.calls[c].method = "revokeToken"}

\* C36: a revokeToken that had sent its request leaves, as it returns, no
\* token in memory and no token file, whether the request was answered 2xx,
\* answered with an error status or threw; a revokeToken called with no
\* token held returns without a request and leaves the client as it was.
C36_RevokeAlwaysClears ==
    [][/\ \A c \in RevokeCalls :
            (oauth.calls[c].pc = "revoke" /\ oauth'.calls[c].pc # "revoke")
              => /\ oauth'.calls[c].pc = "returned"
                 /\ oauth'.calls[c].outcome \in {"ok", "non2xx", "thrown"}
                 /\ oauth'.userToken = NoToken
                 /\ oauth'.file = <<>>
       /\ (/\ Len(oauth'.calls) > Len(oauth.calls)
           /\ oauth'.calls[Len(oauth'.calls)].method = "revokeToken")
            => IF oauth.userToken = NoToken
               THEN /\ oauth'.calls[Len(oauth'.calls)].pc = "returned"
                    /\ oauth'.calls[Len(oauth'.calls)].requests = 0
                    /\ oauth'.userToken = NoToken
                    /\ oauth'.file = oauth.file
               ELSE /\ oauth'.calls[Len(oauth'.calls)].pc = "revoke"
                    /\ oauth'.calls[Len(oauth'.calls)].requests = 1]_vars

\* a revokeToken whose request threw has returned, a later one found no
\* token and made no request, and the client holds nothing
C36_Witness ==
    /\ \E c, d \in RevokeCalls :
         /\ c < d
         /\ oauth.calls[c].pc = "returned" /\ oauth.calls[c].outcome = "thrown"
         /\ oauth.calls[d].pc = "returned" /\ oauth.calls[d].outcome = "norequest"
    /\ oauth.userToken = NoToken
    /\ oauth.file = <<>>

\* C37: every entry of the PKCE store is eventually gone from it, and from
\* some point on, when no further login is started, the store stays empty;
\* an entry in the store always has its timer pending.
C37_PkceEntriesRemoved ==
    /\ [](pkceStore.entries \subseteq pkceStore.timers)
    /\ \A state \in 1..MaxLogins :
         (state \in pkceStore.entries) ~> (state \notin pkceStore.entries)
    /\ <>[](pkceStore.entries = {})

\* a login has stored an entry, a callback has consumed it, its timer has
\* fired since, and the store is empty
C37_Witness ==
    /\ \E k \in 1..Len(callbacks) : callbacks[k].verifier # 0
    /\ pkceStore.entries = {}
    /\ pkceStore.timers = {}
    /\ pkceStore.expired = {}

\* a creation request has been issued
CreationBegun ==
    \/ startup.pc = "create"
    \/ \E i \in 1..Len(startup.outcomes) :
         startup.outcomes[i] \in {"created", "createFailed", "unauthenticated"}

\* C38: once a creation request has been issued, no delete request of a
\* platform is in flight unless that platform's deletion step has failed;
\* and the delete requests startup makes are all for subscriptions that
\* were there before: none is for, and none removes, one it has created.
C38_DeletedBeforeCreated ==
    /\ CreationBegun
         => \A sub \in startup.pending : sub.platform \in startup.failed
    /\ startup.sent \subseteq startup.existing
    /\ startup.sent \cap Created(startup) = {}
    /\ startup.deleted \cap Created(startup) = {}
    /\ startup.pc \in {"list", "deleting"} => startup.outcomes = <<>>

\* a subscription was created while a delete request of a failed deletion
\* step was still in flight, and another old subscription had been deleted
C38_Witness ==
    /\ Created(startup) # {}
    /\ startup.pending # {}
    /\ startup.deleted # {}

\* the calls of the methods that use the token of the given kind
FiledCallsOf(type) == {c \in 1..Len(filed.calls) : filed.calls[c].type = type}

\* C39: create() rejects only because the app token could be neither loaded
\* nor fetched and stored, never for the user token file: with a readable
\* app_token.json it resolves at once, holding that token and no user token
\* when user_token.json is absent or unreadable.  On the created client a
\* method that needs the user token, called while there is none, throws
\* without any request; a method that needs the app token is never refused
\* for want of a token, sends its API request with the app token, and fails
\* only when the token request, the file write or the API request failed.
C39_CreateWithoutUserToken ==
    /\ [](/\ filed.create \in {"start", "fetch", "created",
                               "appFileFailed", "fetchFailed", "writeFailed"}
          /\ filed.create = "created" => filed.appTokens \notin {NoToken, CorruptFile}
          /\ filed.userTokens # CorruptFile
          /\ \A c \in FiledCallsOf("user") :
               filed.calls[c].found = "none"
                 => /\ filed.calls[c].pc = "threw"
                    /\ filed.calls[c].outcome = "norequest"
                    /\ filed.calls[c].requests = 0
                    /\ filed.calls[c].apiRequests = 0
          /\ \A c \in FiledCallsOf("app") :
               /\ filed.calls[c].outcome # "norequest"
               /\ filed.calls[c].pc \in {"api", "returned"} => filed.calls[c].sentWith = "app"
               /\ filed.calls[c].pc = "threw"
                    => \/ filed.calls[c].outcome \in {"non2xx", "thrown", "writeFailed"}
                       \/ filed.calls[c].apiRequests = 1)
    /\ [][(filed.create = "start" /\ filed.appFile \notin {NoToken, CorruptFile})
            => /\ filed'.create = "created"
               /\ filed'.appTokens = filed.appFile
               /\ (filed.userFile \in {NoToken, CorruptFile} => filed'.userTokens = NoToken)]_vars

\* create() found no user_token.json and no app_token.json and fetched the
\* app token; then a user-token method threw and an app-token method returned
C39_Witness ==
    /\ "create" \in DOMAIN filed
    /\ filed.create = "created"
    /\ filed.userFile = NoToken
    /\ filed.userTokens = NoToken
    /\ filed.appTokens # NoToken /\ filed.appTokens[1].accessToken = 3
    /\ \E c \in FiledCallsOf("user") : filed.calls[c].pc = "threw"
    /\ \E c \in FiledCallsOf("app") : filed.calls[c].pc = "returned"

\* C40: a login request whose secret is missing or is not the configured
\* OAUTH_DASHBOARD_SECRET is answered 401 and its step leaves the entries of
\* the PKCE store and the timers as they were; with the variable unset every
\* login is answered 401 and the store stays empty.
C40_UnauthorizedLoginChangesNothing ==
    /\ [](/\ \A i \in 1..Len(pkceStore.logins) :
               (\/ pkceStore.logins[i].secret = Undefined
                \/ pkceStore.logins[i].secret # pkceStore.dashboardSecret)
                 => /\ pkceStore.logins[i].status = 401
                    /\ i \notin pkceStore.entries \cup pkceStore.timers \cup pkceStore.expired
          /\ pkceStore.dashboardSecret = Undefined
               => /\ \A i \in 1..Len(pkceStore.logins) : pkceStore.logins[i].status = 401
                  /\ pkceStore.entries = {}
                  /\ pkceStore.timers = {})
    /\ [][(/\ Len(pkceStore'.logins) > Len(pkceStore.logins)
           /\ pkceStore'.logins[Len(pkceStore'.logins)].status = 401)
            => /\ pkceStore'.entries = pkceStore.entries
               /\ pkceStore'.timers = pkceStore.timers
               /\ pkceStore'.expired = pkceStore.expired]_vars

\* with the variable unset a login without a secret was answered 401 and
\* nothing is stored
C40_Witness ==
    /\ pkceStore.dashboardSecret = Undefined
    /\ \E i \in 1..Len(pkceStore.logins) :
         pkceStore.logins[i].secret = Undefined /\ pkceStore.logins[i].status = 401
    /\ pkceStore.entries = {}
    /\ pkceStore.timers = {}

====
